---- MODULE Spec2Model ----
(***************************************************************************)
(* ARIA orchestrator (app/agent/agent_config): the LangGraph stage graph,  *)
(* its nodes, its routing functions and the suspension before              *)
(* human_checkpoint.  Confidence values are percentages (0.70 is 70).      *)
(***************************************************************************)
EXTENDS Integers, Sequences, FiniteSets, TLC

VARIABLES
    st,            \* ARIAState: the channel values of the thread (a dict: absent keys are absent)
    next,          \* the stage the graph runtime executes next ("END" when finished)
    suspended,     \* TRUE while the runtime has halted before an interrupt_before stage
    resume_value,  \* the human input handed to interrupt() on resume
    executed,      \* checkpoint history: the stages executed so far, in order
    registry,      \* tool names imported by agent/tools/__init__.py
    call           \* last application of a routing function outside a run

vars == <<st, next, suspended, resume_value, executed, registry, call>>

-----------------------------------------------------------------------------
(* Bounds *)

MaxErrors == 2
MaxBuilderRuns == 2
-----------------------------------------------------------------------------
(* Python dict helpers *)

EmptyDict == [k \in {} |-> 0]
NoneStr   == "<None>"

Get(d, k, default) == IF k \in DOMAIN d THEN d[k] ELSE default

\* {**a, **b}: keys of b override keys of a
Over(a, b) == b @@ a


-----------------------------------------------------------------------------
(* Policy constants of the routing functions and nodes *)

DomainRouteThreshold == 30
DomainLogThreshold   == 60
TrizThreshold        == 70
MaxIteration         == 3

-----------------------------------------------------------------------------
(* edges.py: routing functions *)

\* faulty variant: the human-checkpoint threshold is inclusive
route_after_domain_inclusive(s) ==
    IF Get(s, "needs_research_agent", FALSE) THEN "research_agent"
    ELSE IF Get(s, "domain_confidence", 0) <= DomainRouteThreshold THEN "human_checkpoint"
    ELSE "data_extractor"

route_after_domain(s) ==
    IF Get(s, "needs_research_agent", FALSE) THEN "research_agent"
    ELSE IF Get(s, "domain_confidence", 0) < DomainRouteThreshold THEN "human_checkpoint"
    ELSE "data_extractor"

\* faulty variant: any recorded error sends the run to error_handler
route_after_extraction_any(s) ==
    IF Get(s, "errors", <<>>) # <<>> THEN "error_handler" ELSE "data_operator"

route_after_extraction(s) ==
    IF Get(s, "extracted_data", <<>>) = <<>> /\ Get(s, "errors", <<>>) # <<>>
    THEN "error_handler"
    ELSE "data_operator"

\* faulty variant: the error test comes before the tool-builder test
route_after_operations_errors_first(s) ==
    IF Get(s, "processed_data", <<>>) = <<>> /\ Get(s, "errors", <<>>) # <<>>
    THEN "error_handler"
    ELSE IF Get(s, "needs_tool_builder", FALSE) THEN "tool_builder_agent"
    ELSE "rag_retriever"

\* faulty variant: empty processed data goes to error_handler even without errors
route_after_operations_strict(s) ==
    IF Get(s, "needs_tool_builder", FALSE) THEN "tool_builder_agent"
    ELSE IF Get(s, "processed_data", <<>>) = <<>> THEN "error_handler"
    ELSE "rag_retriever"

route_after_operations(s) ==
    IF Get(s, "needs_tool_builder", FALSE) THEN "tool_builder_agent"
    ELSE IF Get(s, "processed_data", <<>>) = <<>> /\ Get(s, "errors", <<>>) # <<>>
    THEN "error_handler"
    ELSE "rag_retriever"

\* faulty variant: the refinement loop allows one more pass
route_after_triz_late(s) ==
    IF Get(s, "confidence_score", 0) >= TrizThreshold \/ Get(s, "iteration", 0) > MaxIteration
    THEN "report_generator" ELSE "data_extractor"

route_after_triz(s) ==
    IF Get(s, "confidence_score", 0) >= TrizThreshold \/ Get(s, "iteration", 0) >= MaxIteration
    THEN "report_generator"
    ELSE "data_extractor"

\* faulty variant: the iteration cap is compared off by one
route_after_error_late(s) ==
    IF Get(s, "iteration", 0) <= MaxIteration THEN "data_extractor" ELSE "report_generator"

route_after_error(s) ==
    IF Get(s, "iteration", 0) < MaxIteration THEN "data_extractor" ELSE "report_generator"

\* build_graph: the edge leaving each stage
\* faulty variant: the graph is compiled without interrupt_before
interrupt_before_none == {}

interrupt_before == {"human_checkpoint"}

EdgeFrom(stage, s) ==
    CASE stage = "domain_identifier"  -> route_after_domain(s)
      [] stage = "research_agent"     -> "data_extractor"
      [] stage = "human_checkpoint"   -> "data_extractor"
      [] stage = "tool_builder_agent" -> "rag_retriever"
      [] stage = "data_extractor"     -> route_after_extraction(s)
      [] stage = "data_operator"      -> route_after_operations(s)
      [] stage = "rag_retriever"      -> "data_consolidator"
      [] stage = "data_consolidator"  -> "triz_analyzer"
      [] stage = "triz_analyzer"      -> route_after_triz(s)
      [] stage = "error_handler"      -> route_after_error(s)
      [] stage = "report_generator"   -> "END"

-----------------------------------------------------------------------------
(* state.py: channel reducers.  messages accumulates, every other key is  *)
(* overwritten by the update.                                             *)

MergeUpdate(s, u) ==
    [k \in DOMAIN s \cup DOMAIN u |->
        IF k \notin DOMAIN u THEN s[k]
        ELSE IF k = "messages" THEN Get(s, "messages", <<>>) \o u[k]
        ELSE u[k]]

-----------------------------------------------------------------------------
(* nodes.py: helpers *)

\* faulty variant: the visit record is put in front of the history
_record_node_prepend(s, name, status) ==
    [current_node |-> name,
     node_history |-> <<[node |-> name, status |-> status]>> \o Get(s, "node_history", <<>>)]

_record_node(s, name, status) ==
    [current_node |-> name,
     node_history |-> Append(Get(s, "node_history", <<>>), [node |-> name, status |-> status])]

_record_decision(s, node, condition, outcome) ==
    [decisions |-> Append(Get(s, "decisions", <<>>),
                          [node |-> node, condition |-> condition, outcome |-> outcome])]

\* [HumanMessage(content=prompt), AIMessage(content=raw)]: the prompt is
\* identified by the node that built it, raw is the oracle's answer as received
\* faulty variant: the system prompt is logged with every exchange
Exchange_with_system(node, raw) ==
    <<[role |-> "system", content |-> node], [role |-> "human", content |-> node],
      [role |-> "ai", content |-> raw]>>

Exchange(node, raw) ==
    <<[role |-> "human", content |-> node], [role |-> "ai", content |-> raw]>>

-----------------------------------------------------------------------------
(* NODE 1: domain_identifier.  result is the oracle's parsed answer, the  *)
(* empty dict when the answer is malformed (invoke_for_json gives None).  *)

\* faulty variant: the decision record uses the routing threshold
domain_identifier_route_threshold(s, result) ==
    LET viz    == _record_node(s, "domain_identifier", "running")
        errors == Get(s, "errors", <<>>)
    IN  IF result = EmptyDict
        THEN Over(viz, [errors            |-> Append(errors, "domain_identifier: invalid JSON"),
                        domain_confidence |-> 0,
                        domain            |-> "unknown",
                        status            |-> "running"])
        ELSE LET decision == _record_decision(s, "domain_identifier",
                                 [confidence |-> Get(result, "domain_confidence", 0)],
                                 IF Get(result, "domain_confidence", 0) >= DomainRouteThreshold
                                 THEN "proceed" ELSE "human_checkpoint")
             IN Over(Over(viz, decision),
                     [messages               |-> Exchange("domain_identifier", result),
                      domain                 |-> Get(result, "domain", "unknown"),
                      reporting_period       |-> Get(result, "reporting_period", "unknown"),
                      kpis                   |-> Get(result, "kpis", <<>>),
                      domain_confidence      |-> Get(result, "domain_confidence", 0),
                      needs_research_agent   |-> Get(result, "needs_research_agent", FALSE),
                      clarification_question |-> Get(result, "clarification_question", NoneStr),
                      errors                 |-> errors,
                      status                 |-> "running"])

domain_identifier(s, result) ==
    LET viz    == _record_node(s, "domain_identifier", "running")
        errors == Get(s, "errors", <<>>)
    IN  IF result = EmptyDict
        THEN Over(viz, [errors            |-> Append(errors, "domain_identifier: invalid JSON"),
                        domain_confidence |-> 0,
                        domain            |-> "unknown",
                        status            |-> "running"])
        ELSE LET decision == _record_decision(s, "domain_identifier",
                                 [confidence |-> Get(result, "domain_confidence", 0)],
                                 IF Get(result, "domain_confidence", 0) >= DomainLogThreshold
                                 THEN "proceed" ELSE "human_checkpoint")
             IN Over(Over(viz, decision),
                     [messages               |-> Exchange("domain_identifier", result),
                      domain                 |-> Get(result, "domain", "unknown"),
                      reporting_period       |-> Get(result, "reporting_period", "unknown"),
                      kpis                   |-> Get(result, "kpis", <<>>),
                      domain_confidence      |-> Get(result, "domain_confidence", 0),
                      needs_research_agent   |-> Get(result, "needs_research_agent", FALSE),
                      clarification_question |-> Get(result, "clarification_question", NoneStr),
                      errors                 |-> errors,
                      status                 |-> "running"])

(* NODE 2: human_checkpoint.  human_input is the value interrupt() gives  *)
(* back on resume; "x or y" keeps y when x is absent or empty.            *)

OrStr(x, y) == IF x # NoneStr /\ x # "" THEN x ELSE y
OrSeq(x, y) == IF x # <<>> THEN x ELSE y

\* faulty variant: dict.get defaults instead of "or", so an empty value overwrites
human_checkpoint_overwrite(s, human_input) ==
    LET viz == _record_node(s, "human_checkpoint", "waiting")
    IN  Over(viz,
             [domain            |-> Get(human_input, "domain", Get(s, "domain", NoneStr)),
              reporting_period  |-> Get(human_input, "reporting_period",
                                        Get(s, "reporting_period", NoneStr)),
              kpis              |-> Get(human_input, "kpis", Get(s, "kpis", <<>>)),
              domain_confidence |-> 100,
              status            |-> "running"])

human_checkpoint(s, human_input) ==
    LET viz == _record_node(s, "human_checkpoint", "waiting")
    IN  Over(viz,
             [domain            |-> OrStr(Get(human_input, "domain", NoneStr), Get(s, "domain", NoneStr)),
              reporting_period  |-> OrStr(Get(human_input, "reporting_period", NoneStr),
                                          Get(s, "reporting_period", NoneStr)),
              kpis              |-> OrSeq(Get(human_input, "kpis", <<>>), Get(s, "kpis", <<>>)),
              domain_confidence |-> 100,
              status            |-> "running"])

(* graph.py: research_agent stub *)

research_agent(s) ==
    [needs_research_agent |-> FALSE, current_node |-> "research_agent"]


-----------------------------------------------------------------------------
(* Tool names.  A name is the pair <<prefix, rest>> so that               *)
(* name.startswith("extract_from_") and name.replace("extract_from_", "") *)
(* can be computed: "extract_from_xml" is <<"extract_from_", "xml">>.     *)

ExtractPrefix == "extract_from_"
ToolName(prefix, rest) == <<prefix, rest>>

\* the four extractors imported by agent/tools/__init__.py
BuiltinExtractors == {ToolName(ExtractPrefix, k) : k \in {"file", "database", "api", "web"}}

\* formats extract_from_file parses; any other format is returned as "unknown"
KnownFileFormats == {"pdf", "csv", "xlsx", "xls", "excel", "json", "txt", "md", "markdown", "html", "htm"}

(* NODE 3: data_extractor *)

\* keys of EXTRACTOR_MAP after the reload of the tools package
\* faulty variant: the tools module is never inspected for new extractors
_discover_extractors_static(reg) ==
    {"file", "database", "api", "web"}

_discover_extractors(reg) ==
    {"file", "database", "api", "web"} \cup
    {n[2] : n \in {m \in reg : m[1] = ExtractPrefix /\ m \notin BuiltinExtractors}}

extractor_name(src, keys) ==
    IF src.source_type = "file" /\ src.data_format # ""
    THEN IF src.data_format \in keys THEN ToolName(ExtractPrefix, src.data_format)
         ELSE ToolName(ExtractPrefix, "file")
    ELSE IF src.source_type \in keys THEN ToolName(ExtractPrefix, src.source_type)
         ELSE ToolName(ExtractPrefix, "file")

\* what the chosen extractor returns when it does not raise
extract_data(src, name) ==
    IF name = ToolName(ExtractPrefix, "file")
    THEN LET fmt == IF src.data_format # "" THEN src.data_format ELSE src.ext
         IN  [format |-> IF fmt \in KnownFileFormats THEN fmt ELSE "unknown", ext |-> src.ext]
    ELSE IF name \in BuiltinExtractors
    THEN [format |-> src.source_type, ext |-> src.ext]
    ELSE [format |-> "rows", ext |-> src.ext]

\* the loop over the sources; raising is the set of source indices whose extractor raises
RECURSIVE extract_loop(_, _, _, _, _)
extract_loop(sources, i, keys, raising, acc) ==
    IF i > Len(sources) THEN acc
    ELSE LET src  == sources[i]
             name == extractor_name(src, keys)
         IN  IF i \in raising
             THEN extract_loop(sources, i + 1, keys, raising,
                      [acc EXCEPT !.errors = Append(@, "data_extractor: source failed")])
             ELSE extract_loop(sources, i + 1, keys, raising,
                      [acc EXCEPT !.extracted_data =
                          Append(@, [source_id      |-> src.source_id,
                                     source_type    |-> src.source_type,
                                     data           |-> extract_data(src, name),
                                     extractor_used |-> name])])

data_extractor(s, reg, raising) ==
    LET viz == _record_node(s, "data_extractor", "running")
        res == extract_loop(Get(s, "data_sources", <<>>), 1, _discover_extractors(reg), raising,
                            [extracted_data |-> <<>>, errors |-> Get(s, "errors", <<>>)])
    IN  Over(viz, [extracted_data |-> res.extracted_data,
                   errors         |-> res.errors,
                   iteration      |-> Get(s, "iteration", 0) + 1])

(* NODE 4: data_operator *)

OP_MAP == {"filter", "aggregate", "normalize", "compare"}

DefaultPlan == [operations |-> <<"normalize">>, missing_tool |-> [needed |-> FALSE]]

\* indices of the extracted entries whose data has format "unknown"
UnknownEntries(extracted) == {i \in 1..Len(extracted) : extracted[i].data.format = "unknown"}

Min(S) == CHOOSE x \in S : \A y \in S : x <= y

\* the loop over plan.operations; opres[i] is what operation i does:
\* "ok" (returns its input transformed), "empty" (returns no record), "raise"
RECURSIVE apply_operations(_, _, _, _)
apply_operations(ops, i, opres, acc) ==
    IF i > Len(ops) THEN acc
    ELSE IF ops[i] \notin OP_MAP THEN apply_operations(ops, i + 1, opres, acc)
    ELSE IF opres[i] = "raise"
         THEN apply_operations(ops, i + 1, opres,
                  [acc EXCEPT !.errors = Append(@, "data_operator: operation failed")])
    ELSE IF opres[i] = "empty"
         THEN apply_operations(ops, i + 1, opres, [acc EXCEPT !.processed = <<>>])
    ELSE apply_operations(ops, i + 1, opres, acc)

\* faulty variant: a hand-off to the tool builder empties processed_data
data_operator_handoff_resets(s, answer, opres) ==
    LET viz       == _record_node(s, "data_operator", "running")
        errors    == Get(s, "errors", <<>>)
        extracted == Get(s, "extracted_data", <<>>)
        unknown   == UnknownEntries(extracted)
        plan      == IF answer = EmptyDict THEN DefaultPlan ELSE answer
        missing   == Get(plan, "missing_tool", EmptyDict)
    IN  IF unknown # {}
        THEN Over(viz, [needs_tool_builder |-> TRUE,
                        missing_tool_spec  |->
                            [tool_name |-> ToolName(ExtractPrefix, extracted[Min(unknown)].data.ext)],
                        processed_data     |-> <<>>,
                        errors             |-> errors])
        ELSE IF Get(missing, "needed", FALSE) /\ "tool_name" \in DOMAIN missing
        THEN Over(viz, [messages           |-> Exchange("data_operator", answer),
                        needs_tool_builder |-> TRUE,
                        missing_tool_spec  |-> [tool_name |-> missing.tool_name],
                        processed_data     |-> <<>>,
                        errors             |-> errors])
        ELSE LET res == apply_operations(Get(plan, "operations", <<>>), 1, opres,
                                         [processed |-> extracted, errors |-> errors])
             IN  Over(viz, [messages           |-> Exchange("data_operator", answer),
                            processed_data     |-> res.processed,
                            needs_tool_builder |-> FALSE,
                            errors             |-> res.errors])

data_operator(s, answer, opres) ==
    LET viz       == _record_node(s, "data_operator", "running")
        errors    == Get(s, "errors", <<>>)
        extracted == Get(s, "extracted_data", <<>>)
        unknown   == UnknownEntries(extracted)
        plan      == IF answer = EmptyDict THEN DefaultPlan ELSE answer
        missing   == Get(plan, "missing_tool", EmptyDict)
    IN  IF unknown # {}
        THEN Over(viz, [needs_tool_builder |-> TRUE,
                        missing_tool_spec  |->
                            [tool_name |-> ToolName(ExtractPrefix, extracted[Min(unknown)].data.ext)],
                        errors             |-> errors])
        ELSE IF Get(missing, "needed", FALSE) /\ "tool_name" \in DOMAIN missing
        THEN Over(viz, [messages           |-> Exchange("data_operator", answer),
                        needs_tool_builder |-> TRUE,
                        missing_tool_spec  |-> [tool_name |-> missing.tool_name],
                        errors             |-> errors])
        ELSE LET res == apply_operations(Get(plan, "operations", <<>>), 1, opres,
                                         [processed |-> extracted, errors |-> errors])
             IN  Over(viz, [messages           |-> Exchange("data_operator", answer),
                            processed_data     |-> res.processed,
                            needs_tool_builder |-> FALSE,
                            errors             |-> res.errors])

(* graph.py: tool_builder_agent.  raised: asyncio.run raised; mcp_result  *)
(* is the dict build_tool returned otherwise.  code is "def_tool" when    *)
(* executing it defines the requested callable, "raises" when executing   *)
(* it raises, "" when there is none.                                      *)

\* faulty variant: the flag and the spec are cleared only on success
tool_builder_agent_keep_flag(s, raised, mcp_result) ==
    LET spec    == Get(s, "missing_tool_spec", EmptyDict)
        errors0 == Get(s, "errors", <<>>)
        errors1 == IF raised THEN Append(errors0, "tool_builder_agent MCP call failed") ELSE errors0
        result  == IF raised THEN [status |-> "failed", error |-> "tool_builder_agent MCP call failed"]
                   ELSE mcp_result
        check   == Get(result, "status", NoneStr) = "success" /\ Get(result, "code", "") # ""
        validated == check /\ result.code = "def_tool"
    IN  [needs_tool_builder  |-> ~check,
         missing_tool_spec   |-> IF check THEN EmptyDict ELSE spec,
         tool_builder_result |-> Over(result, [validated |-> validated]),
         current_node        |-> "tool_builder_agent",
         errors              |-> errors1]

tool_builder_agent(s, raised, mcp_result) ==
    LET spec    == Get(s, "missing_tool_spec", EmptyDict)
        errors0 == Get(s, "errors", <<>>)
        errors1 == IF raised THEN Append(errors0, "tool_builder_agent MCP call failed") ELSE errors0
        result  == IF raised THEN [status |-> "failed", error |-> "tool_builder_agent MCP call failed"]
                   ELSE mcp_result
        check   == Get(result, "status", NoneStr) = "success" /\ Get(result, "code", "") # ""
        errors2 == IF check /\ result.code = "raises"
                   THEN Append(errors1, "tool_builder_agent validation failed") ELSE errors1
        validated == check /\ result.code = "def_tool"
    IN  [needs_tool_builder  |-> FALSE,
         missing_tool_spec   |-> EmptyDict,
         tool_builder_result |-> Over(result, [validated |-> validated]),
         current_node        |-> "tool_builder_agent",
         errors              |-> errors2]

(* NODE 5: rag_retriever.  nfail of the queries raise. *)

rag_queries(s) ==
    <<"benchmarks", "kpi standards", "historical trends">> \o
    (IF Get(s, "user_query", NoneStr) \notin {NoneStr, ""} THEN <<"user query">> ELSE <<>>)

RECURSIVE Repeat(_, _)
Repeat(x, n) == IF n <= 0 THEN <<>> ELSE <<x>> \o Repeat(x, n - 1)

rag_retriever(s, nfail) ==
    LET viz     == _record_node(s, "rag_retriever", "running")
        queries == rag_queries(s)
    IN  Over(viz, [rag_queries |-> queries,
                   rag_context |-> Repeat("chunk", 3 * (Len(queries) - nfail)),
                   errors      |-> Get(s, "errors", <<>>) \o Repeat("rag_retriever: query failed", nfail)])

(* NODE 6: data_consolidator.  fails: consolidate_report raised. *)

data_consolidator(s, fails) ==
    LET viz == _record_node(s, "data_consolidator", "running")
    IN  Over(viz, [consolidated_data |-> [data     |-> Get(s, "processed_data", <<>>),
                                          rag      |-> Get(s, "rag_context", <<>>),
                                          fallback |-> fails],
                   errors            |-> IF fails
                                         THEN Append(Get(s, "errors", <<>>), "data_consolidator: failed")
                                         ELSE Get(s, "errors", <<>>)])

(* NODE 7: triz_analyzer *)

DefaultTrizConfidence == 50

\* faulty variant: the degraded flag follows the iteration cap alone
triz_analyzer_cap_only(s, result) ==
    LET viz       == _record_node(s, "triz_analyzer", "running")
        errors    == Get(s, "errors", <<>>)
        iteration == Get(s, "iteration", 0)
    IN  IF result = EmptyDict
        THEN Over(viz, [triz_analysis    |-> EmptyDict,
                        confidence_score |-> 0,
                        errors           |-> Append(errors, "triz_analyzer: invalid JSON")])
        ELSE LET confidence == Get(result, "confidence_score", DefaultTrizConfidence)
                 decision   == _record_decision(s, "triz_analyzer",
                                   [confidence |-> confidence, iteration |-> iteration],
                                   IF confidence >= TrizThreshold \/ iteration >= MaxIteration
                                   THEN "report_generator" ELSE "data_extractor")
             IN  Over(Over(viz, decision),
                      [messages         |-> Exchange("triz_analyzer", result),
                       triz_analysis    |-> [root_causes |-> Get(result, "root_causes", <<>>)],
                       key_findings     |-> Get(result, "key_findings", <<>>),
                       recommendations  |-> Get(result, "recommendations", <<>>),
                       confidence_score |-> confidence,
                       degraded_report  |-> (iteration >= MaxIteration),
                       errors           |-> errors])

\* faulty variant: a malformed answer leaves the default confidence
triz_analyzer_default_confidence(s, result) ==
    LET viz       == _record_node(s, "triz_analyzer", "running")
        errors    == Get(s, "errors", <<>>)
        iteration == Get(s, "iteration", 0)
    IN  IF result = EmptyDict
        THEN Over(viz, [triz_analysis    |-> EmptyDict,
                        confidence_score |-> DefaultTrizConfidence,
                        errors           |-> Append(errors, "triz_analyzer: invalid JSON")])
        ELSE LET confidence == Get(result, "confidence_score", DefaultTrizConfidence)
                 decision   == _record_decision(s, "triz_analyzer",
                                   [confidence |-> confidence, iteration |-> iteration],
                                   IF confidence >= TrizThreshold \/ iteration >= MaxIteration
                                   THEN "report_generator" ELSE "data_extractor")
             IN  Over(Over(viz, decision),
                      [messages         |-> Exchange("triz_analyzer", result),
                       triz_analysis    |-> [root_causes |-> Get(result, "root_causes", <<>>)],
                       key_findings     |-> Get(result, "key_findings", <<>>),
                       recommendations  |-> Get(result, "recommendations", <<>>),
                       confidence_score |-> confidence,
                       degraded_report  |-> (iteration >= MaxIteration /\ confidence < TrizThreshold),
                       errors           |-> errors])

triz_analyzer(s, result) ==
    LET viz       == _record_node(s, "triz_analyzer", "running")
        errors    == Get(s, "errors", <<>>)
        iteration == Get(s, "iteration", 0)
    IN  IF result = EmptyDict
        THEN Over(viz, [triz_analysis    |-> EmptyDict,
                        confidence_score |-> 0,
                        errors           |-> Append(errors, "triz_analyzer: invalid JSON")])
        ELSE LET confidence == Get(result, "confidence_score", DefaultTrizConfidence)
                 decision   == _record_decision(s, "triz_analyzer",
                                   [confidence |-> confidence, iteration |-> iteration],
                                   IF confidence >= TrizThreshold \/ iteration >= MaxIteration
                                   THEN "report_generator" ELSE "data_extractor")
             IN  Over(Over(viz, decision),
                      [messages         |-> Exchange("triz_analyzer", result),
                       triz_analysis    |-> [root_causes |-> Get(result, "root_causes", <<>>)],
                       key_findings     |-> Get(result, "key_findings", <<>>),
                       recommendations  |-> Get(result, "recommendations", <<>>),
                       confidence_score |-> confidence,
                       degraded_report  |-> (iteration >= MaxIteration /\ confidence < TrizThreshold),
                       errors           |-> errors])

(* NODE 8: report_generator.  failing is the set of renderers that raise. *)

Renderers == <<"charts", "markdown", "html", "pdf", "pptx">>

RenderError == [charts   |-> "render_charts: failed",
                markdown |-> "render_markdown: failed",
                html     |-> "render_html: failed",
                pdf      |-> "render_pdf: failed",
                pptx     |-> "render_pptx: failed"]

\* faulty variant: the first renderer that raises ends the rendering
RECURSIVE render_loop_abort(_, _, _, _)
render_loop_abort(i, formats, failing, acc) ==
    IF i > Len(Renderers) THEN acc
    ELSE LET fmt == Renderers[i]
         IN  IF fmt # "charts" /\ \A j \in 1..Len(formats) : formats[j] # fmt
             THEN render_loop_abort(i + 1, formats, failing, acc)
             ELSE IF fmt \in failing
             THEN [acc EXCEPT !.errors = Append(@, RenderError[fmt])]
             ELSE render_loop_abort(i + 1, formats, failing,
                      [acc EXCEPT !.artifacts = @ \cup {fmt}])

RECURSIVE render_loop(_, _, _, _)
render_loop(i, formats, failing, acc) ==
    IF i > Len(Renderers) THEN acc
    ELSE LET fmt == Renderers[i]
         IN  IF fmt # "charts" /\ \A j \in 1..Len(formats) : formats[j] # fmt
             THEN render_loop(i + 1, formats, failing, acc)
             ELSE IF fmt \in failing
             THEN render_loop(i + 1, formats, failing,
                      [acc EXCEPT !.errors = Append(@, RenderError[fmt])])
             ELSE render_loop(i + 1, formats, failing,
                      [acc EXCEPT !.artifacts = @ \cup {fmt}])

DefaultFormats == <<"json", "markdown", "html", "pdf", "pptx">>

\* faulty variant: a renderer failure marks the run failed
report_generator_failed(s, failing) ==
    LET viz == _record_node(s, "report_generator", "running")
        final_report == [degraded |-> Get(s, "degraded_report", FALSE),
                         score    |-> Get(s, "confidence_score", 0)]
        res == render_loop(1, Get(s, "output_formats", DefaultFormats), failing,
                           [artifacts |-> {"json"}, errors |-> Get(s, "errors", <<>>)])
    IN  Over(viz, [final_report     |-> final_report,
                   report_artifacts |-> res.artifacts,
                   errors           |-> res.errors,
                   status           |-> IF res.errors = Get(s, "errors", <<>>)
                                        THEN "done" ELSE "failed"])

report_generator(s, failing) ==
    LET viz == _record_node(s, "report_generator", "running")
        final_report == [degraded |-> Get(s, "degraded_report", FALSE),
                         score    |-> Get(s, "confidence_score", 0)]
        res == render_loop(1, Get(s, "output_formats", DefaultFormats), failing,
                           [artifacts |-> {"json"}, errors |-> Get(s, "errors", <<>>)])
    IN  Over(viz, [final_report     |-> final_report,
                   report_artifacts |-> res.artifacts,
                   errors           |-> res.errors,
                   status           |-> "done"])

(* NODE 9: error_handler *)

\* faulty variant: error_handler counts a retry itself
error_handler_counting(s) ==
    LET viz       == _record_node(s, "error_handler", "running")
        iteration == Get(s, "iteration", 0)
        decision  == _record_decision(s, "error_handler", [iteration |-> iteration],
                         IF iteration < MaxIteration THEN "data_extractor" ELSE "report_generator")
    IN  Over(Over(viz, decision),
             [errors          |-> Get(s, "errors", <<>>),
              degraded_report |-> (iteration >= MaxIteration),
              iteration       |-> iteration + 1,
              status          |-> "running"])

\* faulty variant: error_handler marks every pass as degraded
error_handler_degrading(s) ==
    LET viz       == _record_node(s, "error_handler", "running")
        iteration == Get(s, "iteration", 0)
        decision  == _record_decision(s, "error_handler", [iteration |-> iteration],
                         IF iteration < MaxIteration THEN "data_extractor" ELSE "report_generator")
    IN  Over(Over(viz, decision),
             [errors          |-> Get(s, "errors", <<>>),
              degraded_report |-> TRUE,
              status          |-> "running"])

\* faulty variant: error_handler starts the retry with an empty errors list
error_handler_clearing(s) ==
    LET viz       == _record_node(s, "error_handler", "running")
        iteration == Get(s, "iteration", 0)
        decision  == _record_decision(s, "error_handler", [iteration |-> iteration],
                         IF iteration < MaxIteration THEN "data_extractor" ELSE "report_generator")
    IN  Over(Over(viz, decision),
             [errors          |-> <<>>,
              degraded_report |-> (iteration >= MaxIteration),
              status          |-> "running"])

\* faulty variant: error_handler marks the run failed at the cap
error_handler_failing(s) ==
    LET viz       == _record_node(s, "error_handler", "running")
        iteration == Get(s, "iteration", 0)
        decision  == _record_decision(s, "error_handler", [iteration |-> iteration],
                         IF iteration < MaxIteration THEN "data_extractor" ELSE "report_generator")
    IN  Over(Over(viz, decision),
             [errors          |-> Get(s, "errors", <<>>),
              degraded_report |-> (iteration >= MaxIteration),
              status          |-> IF iteration >= MaxIteration THEN "failed" ELSE "running"])

error_handler(s) ==
    LET viz       == _record_node(s, "error_handler", "running")
        iteration == Get(s, "iteration", 0)
        decision  == _record_decision(s, "error_handler", [iteration |-> iteration],
                         IF iteration < MaxIteration THEN "data_extractor" ELSE "report_generator")
    IN  Over(Over(viz, decision),
             [errors          |-> Get(s, "errors", <<>>),
              degraded_report |-> (iteration >= MaxIteration),
              status          |-> "running"])

-----------------------------------------------------------------------------
(* sub_agents/tool_builder: the synthesis sub-graph.  In SpecBuilder st is *)
(* the ToolBuilderState of the thread "tool-<tool_name>" kept by the       *)
(* server's checkpointer, next the position in the sub-graph, executed the *)
(* thread's history ("START" marks each run_tool_builder call) and call    *)
(* the value handed back to the caller.  Generated code is "def_tool"      *)
(* (executing it defines the requested function), "no_def" (it defines     *)
(* something else), "raises" (executing it raises) or "" (none).           *)

MaxFixIteration == 3

\* faulty variant: at the repair cap the code is persisted anyway
route_after_test_persist_at_cap(s) ==
    IF Get(s, "test_passed", FALSE) THEN "tool_persister"
    ELSE IF Get(s, "fix_iteration", 0) < MaxFixIteration THEN "code_fixer"
    ELSE "tool_persister"

route_after_test(s) ==
    IF Get(s, "test_passed", FALSE) THEN "tool_persister"
    ELSE IF Get(s, "fix_iteration", 0) < MaxFixIteration THEN "code_fixer"
    ELSE "END"

route_after_fix(s) == "code_tester"

BuilderEdgeFrom(stage, s) ==
    CASE stage = "code_generator" -> "code_tester"
      [] stage = "code_tester"    -> route_after_test(s)
      [] stage = "code_fixer"     -> route_after_fix(s)
      [] stage = "tool_persister" -> "END"

code_generator(s, result) ==
    LET errors == Get(s, "errors", <<>>)
    IN  IF result = EmptyDict \/ Get(result, "code", "") = ""
        THEN [current_node   |-> "code_generator",
              status         |-> "failed",
              errors         |-> Append(errors, "code_generator: LLM returned no code"),
              generated_code |-> ""]
        ELSE [current_node    |-> "code_generator",
              status          |-> "running",
              generated_code  |-> result.code,
              generation_plan |-> Get(result, "reasoning", ""),
              errors          |-> errors]

(* The smoke call of _validate_output_contract.  A tool is described by    *)
(* whether it takes a parameter and by what each of the three synthetic    *)
(* calls does: raise an exception, or return a value.                      *)

NoValue == [type |-> "None", error |-> FALSE, rows |-> "absent", items |-> <<>>, columns |-> "absent"]

Raises(exc) == [kind |-> "raise", exc |-> exc, value |-> NoValue]
Returns(v)  == [kind |-> "return", exc |-> "", value |-> v]

DictValue(error, rows, items, columns) ==
    [type |-> "dict", error |-> error, rows |-> rows, items |-> items, columns |-> columns]

Row(keys) == [isdict |-> TRUE, keys |-> keys]
NotARow   == [isdict |-> FALSE, keys |-> {}]

SkippedExceptions == {"FileNotFoundError", "KeyError", "TypeError"}

\* the loop over test_inputs: the first call that does not raise a skipped exception
RECURSIVE smoke_loop(_, _)
smoke_loop(calls, i) ==
    IF i > Len(calls) THEN [end |-> "exhausted", value |-> NoValue]
    ELSE IF calls[i].kind = "raise"
         THEN IF calls[i].exc \in SkippedExceptions THEN smoke_loop(calls, i + 1)
              ELSE [end |-> "other_exception", value |-> NoValue]
         ELSE [end |-> "returned", value |-> calls[i].value]

\* faulty variant: only the first row is inspected
_validate_output_contract_first_row(tool) ==
    IF ~tool.has_params THEN NoneStr
    ELSE LET smoke  == smoke_loop(tool.calls, 1)
             result == smoke.value
             rows   == result.items
         IN  IF smoke.end # "returned" THEN NoneStr
             ELSE IF result.type = "None" THEN NoneStr
             ELSE IF result.type = "dict" /\ result.error THEN NoneStr
             ELSE IF result.type # "dict" THEN "Expected dict output"
             ELSE IF result.rows = "absent" THEN "Missing key 'rows' in output"
             ELSE IF result.rows # "list" THEN "'rows' must be a list"
             ELSE IF result.columns = "absent" THEN "Missing key 'columns' in output"
             ELSE IF result.columns # "list" THEN "'columns' must be a list"
             ELSE IF rows = <<>> THEN NoneStr
             ELSE IF ~rows[1].isdict THEN "'rows' must contain dicts"
             ELSE NoneStr

\* NoneStr when the contract is respected, "raise" when the check itself
\* raises (row.keys() on a row that is no dict), else the violation
_validate_output_contract(tool) ==
    IF ~tool.has_params THEN NoneStr
    ELSE LET smoke  == smoke_loop(tool.calls, 1)
             result == smoke.value
             rows   == result.items
             bad    == {i \in 2..Len(rows) : ~rows[i].isdict \/ rows[i].keys # rows[1].keys}
         IN  IF smoke.end # "returned" THEN NoneStr
             ELSE IF result.type = "None" THEN NoneStr
             ELSE IF result.type = "dict" /\ result.error THEN NoneStr
             ELSE IF result.type # "dict" THEN "Expected dict output"
             ELSE IF result.rows = "absent" THEN "Missing key 'rows' in output"
             ELSE IF result.rows # "list" THEN "'rows' must be a list"
             ELSE IF result.columns = "absent" THEN "Missing key 'columns' in output"
             ELSE IF result.columns # "list" THEN "'columns' must be a list"
             ELSE IF rows = <<>> THEN NoneStr
             ELSE IF ~rows[1].isdict THEN "'rows' must contain dicts"
             ELSE IF bad = {} THEN NoneStr
             ELSE IF ~rows[Min(bad)].isdict THEN "raise"
             ELSE "Rows have inconsistent keys"

code_tester(s, tool) ==
    LET code    == Get(s, "generated_code", "")
        errors  == Get(s, "errors", <<>>)
        failure == IF code = "raises" THEN "exec raised"
                   ELSE IF code # "def_tool" THEN "NameError: function not found in generated code"
                   ELSE LET contract_error == _validate_output_contract(tool)
                        IN  IF contract_error = NoneStr THEN NoneStr
                            ELSE IF contract_error = "raise" THEN "AttributeError"
                            ELSE contract_error
    IN  IF code = ""
        THEN [current_node |-> "code_tester",
              test_passed  |-> FALSE,
              test_error   |-> "No code provided",
              errors       |-> Append(errors, "code_tester: no code to test")]
        ELSE IF failure = NoneStr
        THEN [current_node |-> "code_tester",
              test_passed  |-> TRUE,
              test_output  |-> "",
              test_error   |-> "",
              errors       |-> errors]
        ELSE [current_node |-> "code_tester",
              test_passed  |-> FALSE,
              test_output  |-> "",
              test_error   |-> failure,
              errors       |-> Append(errors, "code_tester: test failed")]

code_fixer(s, result) ==
    LET generated     == Get(s, "generated_code", "")
        fix_iteration == Get(s, "fix_iteration", 0)
        errors        == Get(s, "errors", <<>>)
    IN  IF result = EmptyDict \/ Get(result, "code", "") = ""
        THEN [current_node  |-> "code_fixer",
              fix_iteration |-> fix_iteration + 1,
              errors        |-> Append(errors, "code_fixer: LLM returned no fix")]
        ELSE [current_node    |-> "code_fixer",
              generated_code  |-> result.code,
              generation_plan |-> Get(result, "reasoning", ""),
              fix_iteration   |-> fix_iteration + 1,
              errors          |-> errors]

\* faulty variant: the persister marks its own result as validated
tool_persister_validated(s, outcome) ==
    LET spec      == Get(s, "tool_spec", EmptyDict)
        code      == Get(s, "generated_code", "")
        tool_name == Get(spec, "tool_name", ToolName("", "unknown_tool"))
        errors    == Get(s, "errors", <<>>)
    IN  [current_node |-> "tool_persister",
         persisted_at |-> "tools",
         tool_result  |-> [tool_name |-> tool_name, status |-> "success", code |-> code,
                           persisted_at |-> "tools", validated |-> TRUE, error |-> ""],
         status       |-> IF outcome = "ok" THEN "done" ELSE "failed",
         errors       |-> errors]

\* outcome: "ok", "write_fails" (writing the tool file raises) or
\* "load_fails" (the file and the import line are written, loading raises)
tool_persister(s, outcome) ==
    LET spec      == Get(s, "tool_spec", EmptyDict)
        code      == Get(s, "generated_code", "")
        tool_name == Get(spec, "tool_name", ToolName("", "unknown_tool"))
        errors    == Get(s, "errors", <<>>)
    IN  IF outcome = "ok"
        THEN [current_node |-> "tool_persister",
              persisted_at |-> "tools",
              tool_result  |-> [tool_name |-> tool_name, status |-> "success", code |-> code,
                                persisted_at |-> "tools", validated |-> FALSE, error |-> ""],
              status       |-> "done",
              errors       |-> errors]
        ELSE [current_node |-> "tool_persister",
              tool_result  |-> [tool_name |-> tool_name, status |-> "failed", code |-> code,
                                error |-> outcome, validated |-> FALSE],
              status       |-> "failed",
              errors       |-> Append(errors, "tool_persister: failed")]

builder_initial_state(tool_spec) ==
    [messages      |-> <<>>,
     tool_spec     |-> tool_spec,
     fix_iteration |-> 0,
     errors        |-> <<>>,
     status        |-> "running",
     current_node  |-> "START",
     test_passed   |-> FALSE]

\* what run_tool_builder hands back from the final state of the thread
run_tool_builder_result(final) ==
    Get(final, "tool_result",
        [tool_name |-> Get(Get(final, "tool_spec", EmptyDict), "tool_name", NoneStr),
         status    |-> "failed",
         error     |-> "No result returned from tool builder graph"])

-----------------------------------------------------------------------------
(* Inputs of a run and answers of the collaborators *)

Source(id, fmt) == [source_id |-> id, source_type |-> "file", data_format |-> fmt, ext |-> fmt]

\* run_aria with its default arguments, and the upload route's call: one
\* uploaded file, formats json and markdown, a user query
RunRequests ==
    {[data_sources |-> <<>>, output_formats |-> DefaultFormats, user_query |-> NoneStr],
     [data_sources |-> <<Source(1, "csv")>>, output_formats |-> DefaultFormats,
      user_query |-> NoneStr],
     [data_sources |-> <<Source(1, "xml")>>, output_formats |-> <<"json", "markdown">>,
      user_query |-> "focus on margins"]}

DomainAnswer(c, r) ==
    [domain |-> "finance", reporting_period |-> "Q1", kpis |-> <<"revenue">>,
     domain_confidence |-> c, needs_research_agent |-> r]

DomainAnswers ==
    {EmptyDict, DomainAnswer(10, FALSE), DomainAnswer(10, TRUE),
     DomainAnswer(30, FALSE), DomainAnswer(85, FALSE)}

NoResume == [supplied |-> FALSE]

\* each field is supplied, supplied empty, or omitted by one of the inputs
HumanInputs ==
    {[domain |-> "hr", kpis |-> <<>>],
     [domain |-> "", reporting_period |-> "Q2", kpis |-> <<"turnover">>]}

NormalizePlan == [operations |-> <<"normalize">>, missing_tool |-> [needed |-> FALSE]]
FilterPlan    == [operations |-> <<"filter">>, missing_tool |-> [needed |-> FALSE]]
MissingPlan   == [operations |-> <<"pivot">>,
                  missing_tool |-> [needed |-> TRUE, tool_name |-> ToolName("", "pivot_data")]]

\* the oracle's plan and what each of its operations does: a malformed answer
\* (the default plan runs), a normalize that raises, a filter that matches no
\* record, a plan that declares a missing tool
OperatorCases ==
    {[answer |-> EmptyDict,     opres |-> <<"ok">>],
     [answer |-> NormalizePlan, opres |-> <<"raise">>],
     [answer |-> FilterPlan,    opres |-> <<"empty">>],
     [answer |-> MissingPlan,   opres |-> <<"ok">>]}

ToolBuilderResults(spec) ==
    {[tool_name |-> Get(spec, "tool_name", NoneStr), status |-> "success", code |-> "def_tool",
      persisted_at |-> "tools", validated |-> FALSE, error |-> ""],
     [tool_name |-> Get(spec, "tool_name", NoneStr), status |-> "success", code |-> "raises",
      persisted_at |-> "tools", validated |-> FALSE, error |-> ""],
     [tool_name |-> Get(spec, "tool_name", NoneStr), status |-> "failed",
      error |-> "No result returned from tool builder graph"]}

\* query_rag is a placeholder that formats three chunks and never raises
QueryFailures == {0}

TrizConfidences == {40, 70, 90}

TrizAnswers ==
    {EmptyDict} \cup
    {[confidence_score |-> c, key_findings |-> <<"finding">>] : c \in TrizConfidences}

\* the renderers that raise: none, the pdf renderer (weasyprint missing), or
\* the chart renderer together with the html renderer
RenderFailures == {{}, {"pdf"}, {"charts", "html"}}

-----------------------------------------------------------------------------
(* graph.py: run_aria builds the initial state and the runtime enters the *)
(* graph at domain_identifier.                                            *)

initial_state(data_sources, output_formats, user_query) ==
    [messages             |-> <<>>,
     data_sources         |-> data_sources,
     output_formats       |-> output_formats,
     iteration            |-> 0,
     user_query           |-> user_query,
     errors               |-> <<>>,
     node_history         |-> <<>>,
     decisions            |-> <<>>,
     status               |-> "running",
     current_node         |-> "START",
     degraded_report      |-> FALSE,
     needs_research_agent |-> FALSE,
     needs_tool_builder   |-> FALSE]

NoCall == [fn |-> "none"]

Init ==
    /\ \E req \in RunRequests :
           st = initial_state(req.data_sources, req.output_formats, req.user_query)
    /\ next = "domain_identifier"
    /\ suspended = FALSE
    /\ resume_value = NoResume
    /\ executed = <<>>
    /\ registry = BuiltinExtractors
    /\ call = NoCall

\* one superstep of the runtime: run the stage, merge its update, follow the
\* edge, and halt if the target is an interrupt_before stage
Step(stage, update) ==
    \E new \in {MergeUpdate(st, update)} :
    \E target \in {EdgeFrom(stage, new)} :
        /\ Len(new.errors) <= MaxErrors
        /\ st' = new
        /\ next' = target
        /\ suspended' = (target \in interrupt_before)
        /\ executed' = Append(executed, stage)

Running(stage) == next = stage /\ ~suspended

DomainIdentifier ==
    /\ Running("domain_identifier")
    /\ \E result \in DomainAnswers : Step("domain_identifier", domain_identifier(st, result))
    /\ UNCHANGED <<resume_value, registry, call>>

\* the caller resumes the suspended thread with the human input
HumanCheckpoint ==
    /\ next = "human_checkpoint"
    /\ suspended
    /\ \E human_input \in HumanInputs :
           /\ Step("human_checkpoint", human_checkpoint(st, human_input))
           /\ resume_value' = human_input
    /\ UNCHANGED <<registry, call>>

ResearchAgent ==
    /\ Running("research_agent")
    /\ Step("research_agent", research_agent(st))
    /\ UNCHANGED <<resume_value, registry, call>>

DataExtractor ==
    /\ Running("data_extractor")
    /\ \E raising \in SUBSET (1..Len(st.data_sources)) :
           Step("data_extractor", data_extractor(st, registry, raising))
    /\ UNCHANGED <<resume_value, registry, call>>

DataOperator ==
    /\ Running("data_operator")
    /\ \E c \in OperatorCases : Step("data_operator", data_operator(st, c.answer, c.opres))
    /\ UNCHANGED <<resume_value, registry, call>>

ToolBuilderAgent ==
    /\ Running("tool_builder_agent")
    /\ \/ /\ Step("tool_builder_agent", tool_builder_agent(st, TRUE, EmptyDict))
          /\ UNCHANGED registry
       \/ \E res \in ToolBuilderResults(Get(st, "missing_tool_spec", EmptyDict)) :
              /\ Step("tool_builder_agent", tool_builder_agent(st, FALSE, res))
              /\ registry' = IF res.status = "success" THEN registry \cup {res.tool_name}
                             ELSE registry
    /\ UNCHANGED <<resume_value, call>>

RagRetriever ==
    /\ Running("rag_retriever")
    /\ \E nfail \in QueryFailures : Step("rag_retriever", rag_retriever(st, nfail))
    /\ UNCHANGED <<resume_value, registry, call>>

DataConsolidator ==
    /\ Running("data_consolidator")
    /\ \E fails \in BOOLEAN : Step("data_consolidator", data_consolidator(st, fails))
    /\ UNCHANGED <<resume_value, registry, call>>

TrizAnalyzer ==
    /\ Running("triz_analyzer")
    /\ \E result \in TrizAnswers : Step("triz_analyzer", triz_analyzer(st, result))
    /\ UNCHANGED <<resume_value, registry, call>>

ErrorHandler ==
    /\ Running("error_handler")
    /\ Step("error_handler", error_handler(st))
    /\ UNCHANGED <<resume_value, registry, call>>

ReportGenerator ==
    /\ Running("report_generator")
    /\ \E failing \in RenderFailures : Step("report_generator", report_generator(st, failing))
    /\ UNCHANGED <<resume_value, registry, call>>

Next ==
    \/ DomainIdentifier
    \/ HumanCheckpoint
    \/ ResearchAgent
    \/ DataExtractor
    \/ DataOperator
    \/ ToolBuilderAgent
    \/ RagRetriever
    \/ DataConsolidator
    \/ TrizAnalyzer
    \/ ErrorHandler
    \/ ReportGenerator

Spec == Init /\ [][Next]_vars

\* the scheduling of a run: the runtime executes the next stage as long as
\* there is one, and the caller supplies the human input to a suspended run
\* on a run started by the upload route
UploadRequests == {req \in RunRequests : req.user_query # NoneStr}

InitUpload ==
    /\ \E req \in UploadRequests :
           st = initial_state(req.data_sources, req.output_formats, req.user_query)
    /\ next = "domain_identifier"
    /\ suspended = FALSE
    /\ resume_value = NoResume
    /\ executed = <<>>
    /\ registry = BuiltinExtractors
    /\ call = NoCall

SpecFair == InitUpload /\ [][Next]_vars /\ WF_vars(Next)

-----------------------------------------------------------------------------
(* The routing functions applied to a state snapshot, outside a run *)

RouteConfidences == {c \in 0..100 : c % 5 = 0} \cup {29, 31}

RouteInputs ==
    {[k \in K |-> IF k = "domain_confidence" THEN c ELSE r] :
        K \in SUBSET {"needs_research_agent", "domain_confidence"},
        c \in RouteConfidences, r \in BOOLEAN}

InitRoute ==
    /\ st \in RouteInputs
    /\ next = "domain_identifier"
    /\ suspended = FALSE
    /\ resume_value = NoResume
    /\ executed = <<>>
    /\ registry = BuiltinExtractors
    /\ call = NoCall

RouteAfterDomain ==
    /\ call = NoCall
    /\ call' = [fn |-> "route_after_domain", result |-> route_after_domain(st)]
    /\ UNCHANGED <<st, next, suspended, resume_value, executed, registry>>

NextRoute == RouteAfterDomain

SpecRoute == InitRoute /\ [][NextRoute]_vars

\* route_after_operations applied to a state snapshot
OperationsRouteInputs ==
    {[k \in K |-> IF k = "needs_tool_builder" THEN b
                  ELSE IF k = "processed_data" THEN pd ELSE er] :
        K  \in SUBSET {"needs_tool_builder", "processed_data", "errors"},
        b  \in BOOLEAN,
        pd \in {<<>>, <<[row |-> 1]>>, <<[row |-> 2]>>, <<[row |-> 1], [row |-> 2]>>},
        er \in {<<>>, <<"data_operator: operation failed">>,
                <<"data_extractor: source failed", "data_operator: operation failed">>}}

InitRouteOps ==
    /\ st \in OperationsRouteInputs
    /\ next = "data_operator"
    /\ suspended = FALSE
    /\ resume_value = NoResume
    /\ executed = <<>>
    /\ registry = BuiltinExtractors
    /\ call = NoCall

RouteAfterOperations ==
    /\ call = NoCall
    /\ call' = [fn |-> "route_after_operations", result |-> route_after_operations(st)]
    /\ UNCHANGED <<st, next, suspended, resume_value, executed, registry>>

NextRouteOps == RouteAfterOperations

SpecRouteOps == InitRouteOps /\ [][NextRouteOps]_vars

-----------------------------------------------------------------------------
(* The tool builder behind the build_tool endpoint: successive             *)
(* run_tool_builder calls for one tool name share one checkpointer thread. *)

BuilderSpec == [tool_name |-> ToolName(ExtractPrefix, "xml")]

GeneratorAnswers ==
    {EmptyDict, [reasoning |-> "plan"],
     [code |-> "def_tool", reasoning |-> "plan"],
     [code |-> "raises", reasoning |-> "plan"]}

FixerAnswers ==
    {EmptyDict, [code |-> "def_tool", reasoning |-> "fix"], [code |-> "no_def", reasoning |-> "fix"]}

Tool(has_params, calls) == [has_params |-> has_params, calls |-> calls]

\* a tool that opens the missing test file, one that returns rows with
\* differing keys, one whose smoke call raises a ValueError
MissingFileTool  == Tool(TRUE, <<Raises("FileNotFoundError"), Raises("FileNotFoundError"),
                                 Raises("FileNotFoundError")>>)
InconsistentTool == Tool(TRUE, <<Returns(DictValue(FALSE, "list", <<Row({"a"}), Row({"b"})>>, "list")),
                                 Raises("FileNotFoundError"), Raises("FileNotFoundError")>>)
ValueErrorTool   == Tool(TRUE, <<Raises("ValueError"), Raises("FileNotFoundError"),
                                 Raises("FileNotFoundError")>>)

BuilderTools == {MissingFileTool, InconsistentTool, ValueErrorTool}

PersistOutcomes == {"ok", "write_fails", "load_fails"}

InitBuilder ==
    /\ st = EmptyDict
    /\ next = "IDLE"
    /\ suspended = FALSE
    /\ resume_value = NoResume
    /\ executed = <<>>
    /\ registry = BuiltinExtractors
    /\ call = NoCall

Runs(history) == Cardinality({i \in 1..Len(history) : history[i] = "START"})

BuilderStep(stage, update) ==
    \E new \in {MergeUpdate(st, update)} :
    \E target \in {BuilderEdgeFrom(stage, new)} :
        /\ st' = new
        /\ next' = target
        /\ executed' = Append(executed, stage)

\* run_tool_builder: invoke writes the initial state onto the thread
RunToolBuilder ==
    /\ next = "IDLE" \/ call.fn = "tool_builder_agent"
    /\ Runs(executed) < MaxBuilderRuns
    /\ st' = MergeUpdate(st, builder_initial_state(BuilderSpec))
    /\ next' = "code_generator"
    /\ executed' = Append(executed, "START")
    /\ call' = NoCall
    /\ UNCHANGED <<suspended, resume_value, registry>>

CodeGenerator ==
    /\ next = "code_generator"
    /\ \E result \in GeneratorAnswers : BuilderStep("code_generator", code_generator(st, result))
    /\ UNCHANGED <<suspended, resume_value, registry, call>>

CodeTester ==
    /\ next = "code_tester"
    /\ \E tool \in BuilderTools : BuilderStep("code_tester", code_tester(st, tool))
    /\ UNCHANGED <<suspended, resume_value, registry, call>>

CodeFixer ==
    /\ next = "code_fixer"
    /\ \E result \in FixerAnswers : BuilderStep("code_fixer", code_fixer(st, result))
    /\ UNCHANGED <<suspended, resume_value, registry, call>>

ToolPersister ==
    /\ next = "tool_persister"
    /\ \E outcome \in PersistOutcomes :
           /\ BuilderStep("tool_persister", tool_persister(st, outcome))
           /\ registry' = IF outcome \in {"ok", "load_fails"}
                          THEN registry \cup {st.tool_spec.tool_name} ELSE registry
    /\ UNCHANGED <<suspended, resume_value, call>>

\* run_tool_builder returns; build_tool hands the dict to the orchestrator
ReturnResult ==
    /\ next = "END"
    /\ call = NoCall
    /\ call' = [fn |-> "run_tool_builder", result |-> run_tool_builder_result(st)]
    /\ UNCHANGED <<st, next, suspended, resume_value, executed, registry>>

\* tool_builder_agent validates what it received
ValidateResult ==
    /\ call.fn = "run_tool_builder"
    /\ call' = [fn     |-> "tool_builder_agent",
                result |-> tool_builder_agent([missing_tool_spec |-> st.tool_spec, errors |-> <<>>],
                                              FALSE, call.result).tool_builder_result]
    /\ UNCHANGED <<st, next, suspended, resume_value, executed, registry>>

NextBuilder ==
    \/ RunToolBuilder
    \/ CodeGenerator
    \/ CodeTester
    \/ CodeFixer
    \/ ToolPersister
    \/ ReturnResult
    \/ ValidateResult

SpecBuilder == InitBuilder /\ [][NextBuilder]_vars

-----------------------------------------------------------------------------
(* code_tester and _validate_output_contract applied to one generated tool *)

SmokeValues ==
    {NoValue,
     [type |-> "list", error |-> FALSE, rows |-> "absent", items |-> <<>>, columns |-> "absent"],
     DictValue(FALSE, "absent", <<>>, "absent"),
     DictValue(TRUE, "absent", <<>>, "absent"),
     DictValue(FALSE, "str", <<>>, "list"),
     DictValue(FALSE, "list", <<>>, "absent"),
     DictValue(FALSE, "list", <<>>, "list"),
     DictValue(FALSE, "list", <<Row({"a", "b"}), Row({"a", "b"})>>, "list"),
     DictValue(FALSE, "list", <<Row({"a", "b"}), Row({"a"})>>, "list"),
     DictValue(FALSE, "list", <<Row({"a"}), NotARow>>, "list"),
     DictValue(TRUE, "list", <<Row({"a"}), Row({"b"})>>, "list")}

SmokeOutcomes ==
    {Raises(exc) : exc \in {"FileNotFoundError", "KeyError", "ValueError", "ZeroDivisionError"}}
    \cup {Returns(v) : v \in SmokeValues}

ToolBehaviours ==
    {Tool(p, <<a, b, c>>) : p \in BOOLEAN, a \in SmokeOutcomes, b \in SmokeOutcomes,
                            c \in {Raises("FileNotFoundError"), Returns(NoValue)}}

InitContract ==
    /\ st = [generated_code |-> "def_tool"] @@ builder_initial_state(BuilderSpec)
    /\ next = "code_tester"
    /\ suspended = FALSE
    /\ resume_value = NoResume
    /\ executed = <<"START", "code_generator">>
    /\ registry = BuiltinExtractors
    /\ call = NoCall

ValidateOutputContract ==
    /\ call = NoCall
    /\ \E tool \in ToolBehaviours :
           call' = [fn |-> "_validate_output_contract", tool |-> tool,
                    result |-> _validate_output_contract(tool)]
    /\ UNCHANGED <<st, next, suspended, resume_value, executed, registry>>

SmokeTest ==
    /\ call = NoCall
    /\ \E tool \in ToolBehaviours :
           call' = [fn |-> "code_tester", tool |-> tool, result |-> code_tester(st, tool)]
    /\ UNCHANGED <<st, next, suspended, resume_value, executed, registry>>

NextContract == ValidateOutputContract \/ SmokeTest

SpecContract == InitContract /\ [][NextContract]_vars

-----------------------------------------------------------------------------
(* A run in which the oracle reports any number for its confidences: the *)
(* values are percentages, so 150 stands for 1.5 and -20 for -0.2.        *)

ScoreValues == {-20, 100, 150}

ScoreRequests == {req \in RunRequests : req.data_sources # <<>> /\ req.user_query = NoneStr}

InitScores ==
    /\ \E req \in ScoreRequests :
           st = initial_state(req.data_sources, req.output_formats, req.user_query)
    /\ next = "domain_identifier"
    /\ suspended = FALSE
    /\ resume_value = NoResume
    /\ executed = <<>>
    /\ registry = BuiltinExtractors
    /\ call = NoCall

OracleDomainIdentifier ==
    /\ Running("domain_identifier")
    /\ \E c \in ScoreValues, r \in BOOLEAN :
           Step("domain_identifier", domain_identifier(st, DomainAnswer(c, r)))
    /\ UNCHANGED <<resume_value, registry, call>>

OracleTrizAnalyzer ==
    /\ Running("triz_analyzer")
    /\ \E c \in ScoreValues :
           Step("triz_analyzer",
                triz_analyzer(st, [confidence_score |-> c, key_findings |-> <<"finding">>]))
    /\ UNCHANGED <<resume_value, registry, call>>

NextScores ==
    \/ OracleDomainIdentifier
    \/ HumanCheckpoint
    \/ ResearchAgent
    \/ DataExtractor
    \/ DataOperator
    \/ ToolBuilderAgent
    \/ RagRetriever
    \/ DataConsolidator
    \/ OracleTrizAnalyzer
    \/ ErrorHandler
    \/ ReportGenerator

SpecScores == InitScores /\ [][NextScores]_vars

-----------------------------------------------------------------------------
(* The tools package shared by concurrent runs.  Two tool_persister        *)
(* executions register the same tool name while a stage of another run     *)
(* reloads the package.  Here st holds the shared files and the reader's   *)
(* module cache, next the position of each process, call its local values: *)
(*   st.file   the tool file, as the chunks it holds                       *)
(*   st.index  the number of import lines for the tool in tools/__init__.py *)
(*   st.cached whether the reader's process has the tool module loaded     *)

Writers == {"w1", "w2"}
Reader  == "reader"

SharedTool == ToolName(ExtractPrefix, "xml")

\* the source each writer persists, and the source left by an earlier registration
WriterCode == [w1 |-> <<"a1", "a2">>, w2 |-> <<"b1">>]
OldCode    == <<"o1", "o2">>

CompleteSources == {WriterCode[w] : w \in Writers} \cup {OldCode}

\* open(file_path, "w") truncates; the buffered content goes out at offset 0
\* when the with-block closes the file
WriteAtStart(file, code) ==
    [i \in 1..(IF Len(file) > Len(code) THEN Len(file) ELSE Len(code)) |->
        IF i <= Len(code) THEN code[i] ELSE file[i]]

ReaderStages == {"data_extractor", "data_operator"}

InitRegistry ==
    /\ \E registered \in BOOLEAN, cached \in BOOLEAN, stage \in ReaderStages :
           /\ cached => registered
           /\ st = [file   |-> IF registered THEN OldCode ELSE <<>>,
                    index  |-> IF registered THEN 1 ELSE 0,
                    cached |-> cached]
           /\ call = [p \in Writers \cup {Reader} |->
                         IF p = Reader
                         THEN [stage |-> stage, has_line |-> FALSE, outcome |-> "none"]
                         ELSE [has_line |-> FALSE, status |-> "running"]]
    /\ next = [p \in Writers \cup {Reader} |-> IF p = Reader THEN "reload" ELSE "open_file"]
    /\ suspended = FALSE
    /\ resume_value = NoResume
    /\ executed = <<>>
    /\ registry = BuiltinExtractors

\* tool_persister, statement by statement
OpenToolFile(w) ==
    /\ next[w] = "open_file"
    /\ st' = [st EXCEPT !.file = <<>>]
    /\ next' = [next EXCEPT ![w] = "write_file"]
    /\ executed' = Append(executed, <<w, "open_file">>)
    /\ UNCHANGED <<suspended, resume_value, registry, call>>

WriteToolFile(w) ==
    /\ next[w] = "write_file"
    /\ st' = [st EXCEPT !.file = WriteAtStart(st.file, WriterCode[w])]
    /\ next' = [next EXCEPT ![w] = "read_init"]
    /\ executed' = Append(executed, <<w, "write_file">>)
    /\ UNCHANGED <<suspended, resume_value, registry, call>>

ReadInit(w) ==
    /\ next[w] = "read_init"
    /\ call' = [call EXCEPT ![w].has_line = (st.index > 0)]
    /\ next' = [next EXCEPT ![w] = "append_import"]
    /\ executed' = Append(executed, <<w, "read_init">>)
    /\ UNCHANGED <<st, suspended, resume_value, registry>>

AppendImport(w) ==
    /\ next[w] = "append_import"
    /\ st' = IF call[w].has_line THEN st ELSE [st EXCEPT !.index = @ + 1]
    /\ next' = [next EXCEPT ![w] = "exec_module"]
    /\ executed' = Append(executed, <<w, "append_import">>)
    /\ UNCHANGED <<suspended, resume_value, registry, call>>

\* exec_module raises on a file that is no complete source: failed result
ExecModule(w) ==
    /\ next[w] = "exec_module"
    /\ call' = [call EXCEPT ![w].status =
                    IF st.file \in CompleteSources THEN "success" ELSE "failed"]
    /\ next' = [next EXCEPT ![w] = "done"]
    /\ executed' = Append(executed, <<w, "exec_module">>)
    /\ UNCHANGED <<st, suspended, resume_value, registry>>

\* importlib.reload(tools_module) in data_extractor or data_operator: the
\* package's __init__.py is read and executed
ReloadTools ==
    /\ next[Reader] = "reload"
    /\ call' = [call EXCEPT ![Reader].has_line = (st.index > 0)]
    /\ next' = [next EXCEPT ![Reader] = "import_tool"]
    /\ executed' = Append(executed, <<Reader, "reload">>)
    /\ UNCHANGED <<st, suspended, resume_value, registry>>

\* the import line of the tool runs: a module not yet loaded in the reader's
\* process is read from the tool file.  data_extractor swallows a failing
\* reload, data_operator lets it propagate.
ImportTool ==
    /\ next[Reader] = "import_tool"
    /\ LET imports == call[Reader].has_line
           raises  == imports /\ ~st.cached /\ st.file \notin CompleteSources
       IN  /\ st' = [st EXCEPT !.cached = @ \/ (imports /\ ~raises)]
           /\ registry' = IF imports /\ ~raises THEN registry \cup {SharedTool} ELSE registry
           /\ call' = [call EXCEPT ![Reader].outcome =
                           IF raises /\ call[Reader].stage = "data_operator"
                           THEN "raised" ELSE "completed"]
    /\ next' = [next EXCEPT ![Reader] = "done"]
    /\ executed' = Append(executed, <<Reader, "import_tool">>)
    /\ UNCHANGED <<suspended, resume_value>>

NextRegistry ==
    \/ \E w \in Writers : OpenToolFile(w)
    \/ \E w \in Writers : WriteToolFile(w)
    \/ \E w \in Writers : ReadInit(w)
    \/ \E w \in Writers : AppendImport(w)
    \/ \E w \in Writers : ExecModule(w)
    \/ ReloadTools
    \/ ImportTool

SpecRegistry == InitRegistry /\ [][NextRegistry]_vars

-----------------------------------------------------------------------------
(* A second run_aria call on a thread_id whose checkpoint holds a finished *)
(* run: invoke writes the new initial_state onto the persisted channels.   *)

\* the first run on the thread: one csv source, every stage succeeds
EarlierRun ==
    LET s0 == initial_state(<<Source(1, "csv")>>, DefaultFormats, NoneStr)
        s1 == MergeUpdate(s0, domain_identifier(s0, DomainAnswer(85, FALSE)))
        s2 == MergeUpdate(s1, data_extractor(s1, BuiltinExtractors, {}))
        s3 == MergeUpdate(s2, data_operator(s2, EmptyDict, <<"ok">>))
        s4 == MergeUpdate(s3, rag_retriever(s3, 0))
        s5 == MergeUpdate(s4, data_consolidator(s4, FALSE))
        s6 == MergeUpdate(s5, triz_analyzer(s5, [confidence_score |-> 90,
                                                 key_findings |-> <<"finding">>]))
    IN  MergeUpdate(s6, report_generator(s6, {}))

EarlierStages ==
    <<"domain_identifier", "data_extractor", "data_operator", "rag_retriever",
      "data_consolidator", "triz_analyzer", "report_generator">>

\* whether the second call has been made
InRun2 == \E i \in 1..Len(executed) : executed[i] = "START"

ThreadRequests == {req \in RunRequests : req.data_sources # <<>> /\ req.user_query = NoneStr}

InitThread ==
    /\ st = EarlierRun
    /\ next = "END"
    /\ suspended = FALSE
    /\ resume_value = NoResume
    /\ executed = EarlierStages
    /\ registry = BuiltinExtractors
    /\ call = NoCall

RunAria ==
    /\ next = "END"
    /\ ~InRun2
    /\ \E req \in ThreadRequests :
           st' = MergeUpdate(st, initial_state(req.data_sources, req.output_formats,
                                               req.user_query))
    /\ next' = "domain_identifier"
    /\ executed' = Append(executed, "START")
    /\ UNCHANGED <<suspended, resume_value, registry, call>>

NextThread == RunAria \/ Next

SpecThread == InitThread /\ [][NextThread]_vars

-----------------------------------------------------------------------------
(* memory/sliding_window.py and _windowed_context.  A message content is   *)
(* kept as its parts: the summary message is the tag the code writes in    *)
(* front and the oracle's summary; a summary is its text and the bracketed *)
(* tags that text happens to contain.                                      *)

WindowSize  == 10
Overlap     == 2
MaxMessages == 20

\* the tag process() writes (accents dropped) and the one _windowed_context looks for
SummaryTag == "[CONTEXTE PRECEDENT]"
ContextTag == "[PREVIOUS CONTEXT]"

SystemMessage(tag, summary) == [role |-> "system", content |-> [tag |-> tag, summary |-> summary]]

\* "needle in content"
Contains(content, needle) == content.tag = needle \/ needle \in content.summary.quotes

\* faulty variant: the active window also takes the overlap messages
process_with_overlap(messages, summary) ==
    IF Len(messages) <= MaxMessages THEN [result |-> messages, oracle_calls |-> 0]
    ELSE LET active_window == SubSeq(messages, Len(messages) - WindowSize - Overlap + 1,
                                     Len(messages))
         IN  [result       |-> <<SystemMessage(SummaryTag, summary)>> \o active_window,
              oracle_calls |-> 1]

\* SlidingWindowMemory(...).process(messages); summary is the oracle's answer
process(messages, summary) ==
    IF Len(messages) <= MaxMessages THEN [result |-> messages, oracle_calls |-> 0]
    ELSE LET active_window == SubSeq(messages, Len(messages) - WindowSize + 1, Len(messages))
         IN  [result       |-> <<SystemMessage(SummaryTag, summary)>> \o active_window,
              oracle_calls |-> 1]

apply_sliding_window(messages, summary) == process(messages, summary).result

NoContext == [none |-> TRUE]

_windowed_context(s, summary) ==
    LET messages == Get(s, "messages", <<>>)
    IN  IF messages = <<>> THEN NoContext
        ELSE LET windowed == apply_sliding_window(messages, summary)
                 hits == {i \in 1..Len(windowed) :
                              windowed[i].role = "system"
                              /\ Contains(windowed[i].content, ContextTag)}
             IN  IF hits = {} THEN NoContext ELSE windowed[Min(hits)].content

MaxHistory == 23

\* a conversation of n messages, human and ai in turn
History(n) == [i \in 1..n |-> [role |-> IF i % 2 = 1 THEN "human" ELSE "ai", content |-> i]]

\* the oracle's summary: a plain one, and one whose text quotes the English tag
Summaries == {[text |-> "recap", quotes |-> {}],
              [text |-> "recap", quotes |-> {ContextTag}]}

InitWindow ==
    /\ \E n \in 0..MaxHistory :
           st = Over(initial_state(<<>>, DefaultFormats, NoneStr), [messages |-> History(n)])
    /\ next = "domain_identifier"
    /\ suspended = FALSE
    /\ resume_value = NoResume
    /\ executed = <<>>
    /\ registry = BuiltinExtractors
    /\ call = NoCall

Process ==
    /\ call = NoCall
    /\ \E summary \in Summaries :
           call' = [fn |-> "process", summary |-> summary,
                    out |-> process(st.messages, summary)]
    /\ UNCHANGED <<st, next, suspended, resume_value, executed, registry>>

WindowedContext ==
    /\ call = NoCall
    /\ \E summary \in Summaries :
           call' = [fn |-> "_windowed_context", summary |-> summary,
                    result |-> _windowed_context(st, summary)]
    /\ UNCHANGED <<st, next, suspended, resume_value, executed, registry>>

NextWindow == Process \/ WindowedContext

SpecWindow == InitWindow /\ [][NextWindow]_vars

-----------------------------------------------------------------------------
(* report_generator applied to one state: the requested formats, the errors *)
(* already recorded and the renderers that raise                            *)

ReportFormats ==
    {DefaultFormats, <<"json", "markdown">>, <<"pdf">>, <<>>, <<"pptx", "html", "docx">>}

ReportErrors == {<<>>, <<"data_extractor [1]: failed">>}

InitReport ==
    /\ \E formats \in ReportFormats, errors \in ReportErrors :
           st = Over(initial_state(<<>>, formats, NoneStr),
                     [errors |-> errors, confidence_score |-> 90, current_node |-> "triz_analyzer"])
    /\ next = "report_generator"
    /\ suspended = FALSE
    /\ resume_value = NoResume
    /\ executed = <<>>
    /\ registry = BuiltinExtractors
    /\ call = NoCall

RenderReport ==
    /\ call = NoCall
    /\ \E failing \in SUBSET {Renderers[i] : i \in 1..Len(Renderers)} :
           call' = [fn |-> "report_generator", failing |-> failing,
                    result |-> report_generator(st, failing)]
    /\ UNCHANGED <<st, next, suspended, resume_value, executed, registry>>

NextReport == RenderReport

SpecReport == InitReport /\ [][NextReport]_vars

-----------------------------------------------------------------------------
(* Properties *)

Last(seq) == seq[Len(seq)]
InSeq(x, seq) == \E i \in 1..Len(seq) : seq[i] = x
Ran(stage) == executed' = Append(executed, stage)

\* C1: when triz_analyzer or error_handler completes with iteration >= 3 the
\* next stage (selected, and then executed) is report_generator, and
\* data_extractor is never executed from a state with iteration >= 3.
C1_CapForcesReport ==
    [][ /\ ((Ran("triz_analyzer") \/ Ran("error_handler")) /\ st'.iteration >= 3)
            => (next' = "report_generator" /\ ~suspended')
        /\ (/\ executed # <<>>
            /\ Last(executed) \in {"triz_analyzer", "error_handler"}
            /\ st.iteration >= 3
            /\ executed' # executed)
            => Ran("report_generator")
        /\ st.iteration >= 3 => ~Ran("data_extractor") ]_vars

C1_Witness ==
    /\ next = "END"
    /\ st.iteration = 3
    /\ InSeq("triz_analyzer", executed)
    /\ InSeq("error_handler", executed)

\* C2: whenever report_generator is about to run or has run, iteration >= 3
\* and confidence_score < 0.70 imply degraded_report = true.
C2_DegradedAtCap ==
    (next \in {"report_generator", "END"} /\ st.iteration >= 3 /\ Get(st, "confidence_score", 0) < 70)
        => st.degraded_report

C4_IterationCounts ==
    [][ IF Ran("data_extractor")
        THEN st'.iteration = st.iteration + 1
        ELSE st'.iteration = st.iteration ]_vars

C4_Witness ==
    /\ st.iteration = 3
    /\ Last(executed) = "data_extractor"
    /\ InSeq("error_handler", executed)

\* C5: once status is done or failed no step changes it; only report_generator
\* sets status done, END follows it, and no stage executes afterwards.
C5_DoneIsFinal ==
    [][ /\ st.status \in {"done", "failed"} => st'.status = st.status
        /\ (st.status # "done" /\ st'.status = "done")
            => (Ran("report_generator") /\ next' = "END")
        /\ st.status = "done" => executed' = executed ]_vars

C5_Witness ==
    /\ st.status = "done"
    /\ next = "END"
    /\ Last(executed) = "report_generator"

\* C6: when human_checkpoint is selected the run is suspended before it runs;
\* while suspended the only step is human_checkpoint with the supplied human
\* input; a run is suspended at no other stage.
C6_SuspendBeforeCheckpoint ==
    /\ [](next = "human_checkpoint" => (suspended /\ st.current_node = "domain_identifier"))
    /\ [](suspended => next = "human_checkpoint")
    /\ [][ suspended => (Ran("human_checkpoint") /\ resume_value' \in HumanInputs) ]_vars

C6_Witness ==
    /\ suspended
    /\ next = "human_checkpoint"
    /\ Last(executed) = "domain_identifier"

\* C7: while a run is suspended at human_checkpoint its status is waiting_for_human.
C7_WaitingStatus ==
    suspended => st.status = "waiting_for_human"

C9_Touched ==
    {"domain", "reporting_period", "kpis", "domain_confidence", "status",
     "current_node", "node_history"}

C9_HumanCheckpointFrame ==
    [][ Ran("human_checkpoint") =>
        LET h == resume_value'
        IN  /\ st'.domain_confidence = 100
            /\ st'.status = "running"
            /\ st'.domain = IF "domain" \in DOMAIN h /\ h.domain # ""
                            THEN h.domain ELSE Get(st, "domain", NoneStr)
            /\ st'.reporting_period = IF "reporting_period" \in DOMAIN h /\ h.reporting_period # ""
                                      THEN h.reporting_period
                                      ELSE Get(st, "reporting_period", NoneStr)
            /\ st'.kpis = IF "kpis" \in DOMAIN h /\ h.kpis # <<>>
                          THEN h.kpis ELSE Get(st, "kpis", <<>>)
            /\ DOMAIN st \subseteq DOMAIN st'
            /\ \A k \in DOMAIN st' \ C9_Touched : k \in DOMAIN st /\ st'[k] = st[k]
            /\ next' = "data_extractor"
            /\ ~suspended' ]_vars

C9_Witness ==
    /\ executed # <<>>
    /\ Last(executed) = "human_checkpoint"
    /\ "domain" \in DOMAIN resume_value
    /\ resume_value.domain = ""
    /\ st.domain = "finance"
    /\ st.kpis = <<"turnover">>
    /\ st.reporting_period = "Q2"

\* C10: a run whose domain_identifier answer is confidence 0.85 without
\* research need, in which no error is recorded, no missing tool is reported
\* and every triz_analyzer answer has confidence 0.9, executes exactly
\* domain_identifier, data_extractor, data_operator, rag_retriever,
\* data_consolidator, triz_analyzer, report_generator and ends done, not degraded.
ScenarioA ==
    /\ Len(st.messages) >= 2
    /\ st.messages[1].content = "domain_identifier"
    /\ st.messages[2].content = DomainAnswer(85, FALSE)
    /\ st.errors = <<>>
    /\ "missing_tool_spec" \notin DOMAIN st
    /\ \A i \in 1..Len(st.decisions) :
           st.decisions[i].node = "triz_analyzer" => st.decisions[i].condition.confidence = 90

C10_ScenarioA ==
    (next = "END" /\ ScenarioA) =>
        /\ executed = <<"domain_identifier", "data_extractor", "data_operator", "rag_retriever",
                        "data_consolidator", "triz_analyzer", "report_generator">>
        /\ st.status = "done"
        /\ st.degraded_report = FALSE

C10_Witness ==
    /\ next = "END"
    /\ ScenarioA
    /\ st.confidence_score = 90

\* C11: after data_extractor the run goes to error_handler iff extracted_data
\* is empty and errors (from any stage) is non-empty, otherwise to
\* data_operator; after error_handler with iteration < 3 it goes to data_extractor.
C11_ExtractionRouting ==
    [][ /\ Ran("data_extractor") =>
            /\ next' \in {"error_handler", "data_operator"}
            /\ next' = "error_handler" <=> (st'.extracted_data = <<>> /\ st'.errors # <<>>)
        /\ (Ran("error_handler") /\ st.iteration < 3) => next' = "data_extractor" ]_vars

C11_Witness ==
    /\ executed # <<>>
    /\ Last(executed) = "error_handler"
    /\ executed[Len(executed) - 1] = "data_extractor"
    /\ st.errors = <<"domain_identifier: invalid JSON">>
    /\ st.iteration = 1
    /\ next = "data_extractor"

\* C12: route_after_operations gives tool_builder_agent whenever
\* needs_tool_builder is true, otherwise error_handler iff processed_data is
\* empty and errors is non-empty, otherwise rag_retriever.
C12_RouteAfterOperations ==
    call.fn = "route_after_operations" =>
        LET needs  == "needs_tool_builder" \in DOMAIN st /\ st.needs_tool_builder
            nodata == "processed_data" \notin DOMAIN st \/ st.processed_data = <<>>
            errs   == "errors" \in DOMAIN st /\ st.errors # <<>>
        IN  /\ needs => call.result = "tool_builder_agent"
            /\ ~needs => /\ call.result \in {"error_handler", "rag_retriever"}
                         /\ call.result = "error_handler" <=> (nodata /\ errs)

C12_Witness ==
    /\ call.fn = "route_after_operations"
    /\ DOMAIN st = {"needs_tool_builder", "processed_data", "errors"}
    /\ st.needs_tool_builder
    /\ st.processed_data = <<>>
    /\ st.errors # <<>>
    /\ call.result = "tool_builder_agent"

\* C13: a missing capability flagged by data_operator leads to
\* tool_builder_agent and then rag_retriever; a successful synthesis registers
\* the capability, and data_extractor then selects a registered
\* extract_from_<format> for a file source with that data_format.
C13_SourceOf(entry) ==
    CHOOSE src \in {st.data_sources[i] : i \in 1..Len(st.data_sources)} :
        src.source_id = entry.source_id

C14_DegradedByTriz ==
    [][ (Ran("triz_analyzer") /\ Len(st'.messages) > Len(st.messages)) =>
            /\ (st'.confidence_score < 70 /\ st.iteration >= 3)
                   => (st'.degraded_report /\ next' = "report_generator")
            /\ st'.confidence_score >= 70 => ~st'.degraded_report ]_vars

C14_Witness ==
    /\ executed # <<>>
    /\ Last(executed) = "triz_analyzer"
    /\ st.confidence_score = 40
    /\ st.iteration = 3
    /\ st.degraded_report
    /\ next = "report_generator"

\* the stages of the synthesis run in progress: what follows the last START
LastStart == CHOOSE i \in 0..Len(executed) :
                 /\ i > 0 => executed[i] = "START"
                 /\ \A j \in (i + 1)..Len(executed) : executed[j] # "START"
RunStages == SubSeq(executed, LastStart + 1, Len(executed))
FixerCalls == Cardinality({i \in 1..Len(RunStages) : RunStages[i] = "code_fixer"})
TestFailedLast == RunStages # <<>> /\ Last(RunStages) = "code_tester" /\ ~st.test_passed

\* the part of C15 about the repair counter: in the run in progress
\* fix_iteration equals the number of code_fixer invocations, never exceeds
\* 3, and a failed test with fix_iteration = 3 ends the sub-machine.
C15_RepairCount ==
    executed # <<>> =>
        /\ st.fix_iteration = FixerCalls
        /\ FixerCalls <= 3
        /\ (TestFailedLast /\ st.fix_iteration = 3) => next = "END"

\* C15: in one synthesis run code_fixer is invoked at most 3 times,
\* fix_iteration counts the invocations from 0, and after the test failure
\* with fix_iteration = 3 the sub-machine ends and the caller receives a
\* result with status = failed.
C15_RepairCap ==
    /\ C15_RepairCount
    /\ (TestFailedLast /\ call.fn = "run_tool_builder") => call.result.status = "failed"

\* C16: when the generate step fails, the run records the error and
\* terminates at once with a failed result: code_tester, code_fixer and
\* tool_persister are not executed in that run.
C16_GenerateFailureTerminates ==
    (executed # <<>> /\ InSeq("code_generator: LLM returned no code", st.errors)) =>
        /\ RunStages = <<"code_generator">>
        /\ next = "END"
        /\ call.fn = "run_tool_builder" => call.result.status = "failed"

\* C17: when the repair attempts reach 3 without a passing test, the result
\* returned by run_tool_builder has status = failed and its error field is
\* the final test_error.
C17_LastFailureDetail ==
    (TestFailedLast /\ st.fix_iteration = 3 /\ call.fn = "run_tool_builder") =>
        /\ call.result.status = "failed"
        /\ call.result.error = st.test_error

C19_Returned(tool, i) ==
    /\ tool.has_params
    /\ i \in 1..Len(tool.calls)
    /\ tool.calls[i].kind = "return"
    /\ \A j \in 1..(i - 1) : tool.calls[j].kind = "raise" /\ tool.calls[j].exc \in SkippedExceptions

C19_RowsColumns(v) ==
    /\ v.type = "dict" /\ ~v.error /\ v.rows = "list" /\ v.columns = "list"
    /\ \A k \in 1..Len(v.items) : v.items[k].isdict

C19_SameKeys(v) == \A k \in 1..Len(v.items) : v.items[k].keys = v.items[1].keys

C20_Compliant(v) == (C19_RowsColumns(v) /\ C19_SameKeys(v)) \/ (v.type = "dict" /\ v.error)

C20_SmokeAcceptable(tool) ==
    /\ tool.has_params
    /\ \/ \A i \in 1..Len(tool.calls) :
              tool.calls[i].kind = "raise" /\ tool.calls[i].exc \in SkippedExceptions
       \/ \E i \in 1..Len(tool.calls) :
              C19_Returned(tool, i) /\ C20_Compliant(tool.calls[i].value)

\* C20: the sandbox test passes only if the smoke call raises a
\* resource-not-found-class error or returns a contract-compliant value; any
\* other error and any other returned shape yield test_passed = false.
C20_SmokeTestStrict ==
    (call.fn = "code_tester" /\ call.result.test_passed) => C20_SmokeAcceptable(call.tool)

\* C21: whatever the synthesis outcome, tool_builder_agent returns with
\* needs_tool_builder = false, missing_tool_spec empty and
\* tool_builder_result set, and the next stage is rag_retriever;
\* needs_tool_builder is true only between the data_operator pass that
\* flagged a missing tool and the tool_builder_agent execution that follows.
C21_FlagCleared ==
    /\ [][ Ran("tool_builder_agent") =>
               /\ st'.needs_tool_builder = FALSE
               /\ st'.missing_tool_spec = EmptyDict
               /\ "tool_builder_result" \in DOMAIN st'
               /\ "status" \in DOMAIN st'.tool_builder_result
               /\ next' = "rag_retriever" ]_vars
    /\ [](st.needs_tool_builder =>
               (executed # <<>> /\ Last(executed) = "data_operator" /\ next = "tool_builder_agent"))

C21_Witness ==
    /\ executed # <<>>
    /\ Last(executed) = "tool_builder_agent"
    /\ st.tool_builder_result.status = "failed"
    /\ InSeq("tool_builder_agent MCP call failed", st.errors)
    /\ ~st.needs_tool_builder
    /\ next = "rag_retriever"

\* the entries tool_builder_agent can append to errors
C22_SynthesisEntries ==
    {"tool_builder_agent MCP call failed", "tool_builder_agent validation failed"}

\* C22: when synthesis fails, the failure is logged in the run state:
\* tool_builder_result has status = failed with a non-empty error text and
\* errors holds an entry describing the synthesis failure.
C22_FailureLogged ==
    (executed # <<>> /\ Last(executed) = "tool_builder_agent"
        /\ st.tool_builder_result.status = "failed") =>
        /\ st.tool_builder_result.error # ""
        /\ \E i \in 1..Len(st.errors) : st.errors[i] \in C22_SynthesisEntries

IsPrefix(a, b) == Len(a) <= Len(b) /\ SubSeq(b, 1, Len(a)) = a

\* C23: within a run the errors list is append-only: after every stage the
\* previous errors list is a prefix of the new one.
C23_ErrorsAppendOnly ==
    [][ IsPrefix(st.errors, st'.errors) ]_vars

C23_Witness ==
    /\ InSeq("error_handler", executed)
    /\ InSeq("tool_builder_agent", executed)
    /\ Len(st.errors) >= 2
    /\ st.status = "done"

RecordingStages ==
    {"domain_identifier", "human_checkpoint", "data_extractor", "data_operator", "rag_retriever",
     "data_consolidator", "triz_analyzer", "report_generator", "error_handler"}

IsRecording(stage) == stage \in RecordingStages

\* C24: node_history and decisions only grow by appending at the end, in
\* execution order: the previous list is a prefix of the new one, a stage
\* adds at most one record to each and the record names that stage, and the
\* nodes of node_history are the recording stages in the order they executed.
C24_HistoryAppendOnly ==
    /\ [][ /\ IsPrefix(st.node_history, st'.node_history)
           /\ IsPrefix(st.decisions, st'.decisions)
           /\ Len(st'.node_history) <= Len(st.node_history) + 1
           /\ Len(st'.decisions) <= Len(st.decisions) + 1
           /\ Len(st'.node_history) > Len(st.node_history)
                  => Ran(Last(st'.node_history).node)
           /\ Len(st'.decisions) > Len(st.decisions)
                  => Ran(Last(st'.decisions).node) ]_vars
    /\ [](LET visited == SelectSeq(executed, IsRecording)
          IN  /\ Len(st.node_history) = Len(visited)
              /\ \A i \in 1..Len(visited) : st.node_history[i].node = visited[i])

C24_Witness ==
    /\ Len(st.node_history) >= 6
    /\ Len(st.decisions) >= 3
    /\ InSeq("tool_builder_agent", executed)
    /\ st.decisions[2].node = "error_handler"

C25_Requested(fmt) == \E j \in 1..Len(st.output_formats) : st.output_formats[j] = fmt

\* the renderers report_generator calls: charts, and the requested formats
C25_Called == {"charts"} \cup {fmt \in {"markdown", "html", "pdf", "pptx"} : C25_Requested(fmt)}

\* C25: report_generator always returns status = done with final_report and
\* the json artifact set; each failing renderer appends one entry to errors
\* and does not prevent the remaining requested renderers from running; an
\* artifact other than json/charts is present only if its format was
\* requested and its renderer succeeded.
C25_RenderersIsolated ==
    call.fn = "report_generator" =>
        LET result == call.result
        IN  /\ result.status = "done"
            /\ "final_report" \in DOMAIN result
            /\ "json" \in result.report_artifacts
            /\ IsPrefix(st.errors, result.errors)
            /\ Len(result.errors) = Len(st.errors) + Cardinality(C25_Called \cap call.failing)
            /\ \A fmt \in C25_Called \cap call.failing : InSeq(RenderError[fmt], result.errors)
            /\ \A fmt \in C25_Called \ call.failing : fmt \in result.report_artifacts
            /\ \A fmt \in result.report_artifacts \ {"json", "charts"} :
                   C25_Requested(fmt) /\ fmt \notin call.failing

C25_Witness ==
    /\ call.fn = "report_generator"
    /\ call.failing = {"charts", "markdown", "pdf"}
    /\ call.result.report_artifacts = {"json", "html", "pptx"}
    /\ Len(call.result.errors) = 4

C26_InUnitInterval(score) == 0 <= score /\ score <= 100

\* C26: in every reachable state of a run, confidence_score and
\* domain_confidence lie in [0,1], whatever numbers the oracle reports and
\* whatever the human correction is.
C26_ScoresInRange ==
    /\ C26_InUnitInterval(Get(st, "confidence_score", 0))
    /\ C26_InUnitInterval(Get(st, "domain_confidence", 0))

\* C27: when two runs concurrently execute tool_persister for the same
\* name, under every interleaving the index ends with exactly one import
\* line for the name and the tool file holds the complete source of exactly
\* one of the two writers.
C27_OneRegistration ==
    (\A w \in Writers : next[w] = "done") =>
        /\ st.index = 1
        /\ \E w \in Writers : st.file = WriterCode[w]

\* C28: while a tool_persister is writing, a concurrent data_extractor or
\* data_operator that reloads the tools package completes its stage: it
\* sees the registry without the tool or with the complete tool, and never
\* raises.
C28_ReaderCompletes ==
    next[Reader] = "done" =>
        /\ call[Reader].outcome = "completed"
        /\ SharedTool \in registry => st.cached

\* C29: every run started by run_aria begins from a fresh state: the state
\* the first stage of the new run reads is the initial_state of the call,
\* with no value written by an earlier run on the same thread_id.
C29_FreshState ==
    (executed # <<>> /\ Last(executed) = "START") =>
        \E req \in ThreadRequests :
            st = initial_state(req.data_sources, req.output_formats, req.user_query)

C30_Written == {"current_node", "node_history", "decisions", "degraded_report", "status"}

\* C30: error_handler sets degraded_report to exactly (iteration >= 3), sets
\* status = running, appends one decision record and one visit record, and
\* leaves errors, iteration, extracted_data, processed_data and
\* confidence_score (and every other field) unchanged.
C30_ErrorHandlerFrame ==
    [][ Ran("error_handler") =>
            /\ st'.degraded_report = (st.iteration >= 3)
            /\ st'.status = "running"
            /\ st'.node_history = Append(st.node_history,
                                         [node |-> "error_handler", status |-> "running"])
            /\ Len(st'.decisions) = Len(st.decisions) + 1
            /\ IsPrefix(st.decisions, st'.decisions)
            /\ Last(st'.decisions).node = "error_handler"
            /\ DOMAIN st' = DOMAIN st \cup C30_Written
            /\ \A k \in DOMAIN st \ C30_Written : st'[k] = st[k]
            /\ st'.errors = st.errors
            /\ st'.iteration = st.iteration ]_vars

C30_Witness ==
    /\ executed # <<>>
    /\ Last(executed) = "error_handler"
    /\ st.iteration = 3
    /\ st.degraded_report
    /\ st.status = "running"
    /\ Last(st.decisions) = [node |-> "error_handler", condition |-> [iteration |-> 3],
                             outcome |-> "report_generator"]
    /\ "processed_data" \in DOMAIN st

\* C31: process returns the list unchanged without an oracle call when it
\* has at most max_messages (20) entries; otherwise it makes exactly one
\* oracle call and returns one summary system message followed by the last
\* window_size (10) messages in order: window_size + 1 entries.
C31_ProcessWindow ==
    call.fn = "process" =>
        LET messages == st.messages
            n        == Len(st.messages)
            out      == call.out
        IN  /\ n <= 20 => (out.result = messages /\ out.oracle_calls = 0)
            /\ n > 20 =>
                   /\ out.oracle_calls = 1
                   /\ Len(out.result) = 10 + 1
                   /\ out.result[1].role = "system"
                   /\ out.result[1].content.summary = call.summary
                   /\ \A i \in 1..10 : out.result[i + 1] = messages[n - 10 + i]

C31_Witness ==
    /\ call.fn = "process"
    /\ Len(st.messages) = 22
    /\ call.out.oracle_calls = 1
    /\ call.out.result[2] = [role |-> "human", content |-> 13]

\* C32: whenever the history has more than 20 messages, _windowed_context
\* returns the summary message content produced by apply_sliding_window; it
\* returns None only when the history is empty or has at most 20 messages.
C32_SummaryPassed ==
    call.fn = "_windowed_context" =>
        /\ Len(st.messages) > 20 => call.result = [tag |-> SummaryTag, summary |-> call.summary]
        /\ call.result = NoContext => Len(st.messages) <= 20

C34_Malformed(stage) ==
    /\ Ran(stage)
    /\ IF stage = "data_operator"
       THEN /\ Len(st'.messages) = Len(st.messages) + 2
            /\ Last(st'.messages).content = EmptyDict
       ELSE st'.messages = st.messages

\* C34: a malformed oracle answer does not abort a stage.  domain_identifier
\* then gives domain unknown, domain_confidence 0.0 and one more error, and
\* the run goes to human_checkpoint; data_operator runs the default plan (one
\* normalize, no missing tool) and appends no error; triz_analyzer gives
\* confidence_score 0.0, an empty analysis and one more error, and the run
\* loops to data_extractor iff iteration < 3.
C34_MalformedAnswer ==
    [][/\ C34_Malformed("domain_identifier") =>
             /\ st'.domain = "unknown"
             /\ st'.domain_confidence = 0
             /\ Len(st'.errors) = Len(st.errors) + 1
             /\ IsPrefix(st.errors, st'.errors)
             /\ next' = "human_checkpoint"
       /\ C34_Malformed("data_operator") =>
             /\ st'.errors = st.errors
             /\ st'.needs_tool_builder = FALSE
             /\ next' # "tool_builder_agent"
             /\ st' = MergeUpdate(st,
                          Over(data_operator(st,
                                   [operations |-> <<"normalize">>,
                                    missing_tool |-> [needed |-> FALSE]], <<"ok">>),
                               [messages |-> Exchange("data_operator", EmptyDict)]))
       /\ C34_Malformed("triz_analyzer") =>
             /\ st'.confidence_score = 0
             /\ st'.triz_analysis = EmptyDict
             /\ Len(st'.errors) = Len(st.errors) + 1
             /\ IsPrefix(st.errors, st'.errors)
             /\ next' \in {"data_extractor", "report_generator"}
             /\ next' = "data_extractor" <=> st'.iteration < 3]_vars

C34_Witness ==
    /\ executed = <<"domain_identifier", "human_checkpoint", "data_extractor", "data_operator",
                    "rag_retriever", "data_consolidator", "triz_analyzer">>
    /\ st.domain_confidence = 100
    /\ Len(st.errors) = 2
    /\ st.messages = Exchange("data_operator", EmptyDict)
    /\ st.confidence_score = 0
    /\ st.triz_analysis = EmptyDict
    /\ next = "data_extractor"

\* number of times a stage has executed in the run
C35_Count(stage) == Cardinality({i \in 1..Len(executed) : executed[i] = stage})

\* C35: in any run data_extractor executes at most 3 times, and so do
\* data_operator, tool_builder_agent, rag_retriever, data_consolidator,
\* triz_analyzer and error_handler; tool_builder_agent executes at most once
\* per data_extractor pass.
C35_BoundedPasses ==
    /\ C35_Count("data_extractor") <= 3
    /\ C35_Count("data_extractor") = st.iteration
    /\ \A stage \in {"data_operator", "tool_builder_agent", "rag_retriever",
                      "data_consolidator", "triz_analyzer", "error_handler"} :
           C35_Count(stage) <= C35_Count("data_extractor")
    /\ \A i, j \in 1..Len(executed) :
           (i < j /\ executed[i] = "tool_builder_agent" /\ executed[j] = "tool_builder_agent")
               => \E k \in (i + 1)..(j - 1) : executed[k] = "data_extractor"

C35_Witness ==
    /\ C35_Count("data_extractor") = 3
    /\ C35_Count("tool_builder_agent") = 3
    /\ st.data_sources # <<>>
    /\ st.data_sources[1].data_format = "xml"
    /\ next = "END"

\* C36: after every stage the last record of node_history names that stage
\* and equals current_node, and node_history holds exactly one record per
\* executed stage (research_agent, tool_builder_agent and human_checkpoint
\* included).
C36_HistoryTracksStages ==
    executed # <<>> =>
        /\ Len(st.node_history) = Len(executed)
        /\ Last(st.node_history).node = Last(executed)
        /\ st.current_node = Last(executed)

\* C37: whenever triz_analyzer or error_handler appends a decision record,
\* the record's outcome is the stage that route_after_triz, respectively
\* route_after_error, selects from the resulting state.
C37_DecisionMatchesRoute ==
    [][\A stage \in {"triz_analyzer", "error_handler"} :
          (Ran(stage) /\ Len(st'.decisions) > Len(st.decisions)) =>
              /\ Len(st'.decisions) = Len(st.decisions) + 1
              /\ Last(st'.decisions).node = stage
              /\ Last(st'.decisions).outcome = next'
              /\ Last(st'.decisions).outcome =
                     (IF stage = "triz_analyzer" THEN route_after_triz(st')
                      ELSE route_after_error(st'))]_vars

C37_Witness ==
    /\ executed # <<>>
    /\ Last(executed) = "error_handler"
    /\ \E i \in 1..Len(st.decisions) :
           st.decisions[i].node = "triz_analyzer" /\ st.decisions[i].outcome = "data_extractor"
    /\ Last(st.decisions).node = "error_handler"
    /\ st.iteration = 3
    /\ Last(st.decisions).outcome = "report_generator"
    /\ next = "report_generator"

\* C38: in the tool builder, tool_persister runs only right after a
\* code_tester that passed, code_tester leaves generated_code as it is, and
\* the persisted source is that generated_code: no generator or fixer step
\* comes in between, and code that failed its last test is not persisted.
C38_PersistsTestedCode ==
    [][/\ Ran("code_tester") =>
             /\ st'.generated_code = st.generated_code
             /\ next' = "tool_persister" <=> st'.test_passed
             /\ st'.test_passed => st.generated_code = "def_tool"
       /\ Ran("tool_persister") =>
             /\ Last(executed) = "code_tester"
             /\ st.test_passed
             /\ st'.tool_result.code = st.generated_code
             /\ st'.generated_code = st.generated_code]_vars

C38_Witness ==
    /\ executed = <<"START", "code_generator", "code_tester", "code_fixer", "code_tester",
                    "tool_persister">>
    /\ st.fix_iteration = 1
    /\ st.test_passed
    /\ st.tool_result.status = "success"
    /\ st.tool_result.code = "def_tool"
    /\ st.generated_code = "def_tool"

\* processed_data is the same, present or absent, before and after the step
C39_ProcessedUnchanged ==
    /\ ("processed_data" \in DOMAIN st') <=> ("processed_data" \in DOMAIN st)
    /\ "processed_data" \in DOMAIN st => st'.processed_data = st.processed_data

\* C39: when data_operator hands off to tool_builder_agent it leaves
\* processed_data unchanged, and so do tool_builder_agent, rag_retriever,
\* data_consolidator and triz_analyzer: data_consolidator of that pass
\* consolidates the processed_data of the previous pass, or none.
C39_HandoffKeepsProcessed ==
    [][/\ (Ran("data_operator") /\ next' = "tool_builder_agent") => C39_ProcessedUnchanged
       /\ \A stage \in {"tool_builder_agent", "rag_retriever", "data_consolidator",
                         "triz_analyzer"} : Ran(stage) => C39_ProcessedUnchanged
       /\ Ran("data_consolidator") =>
              st'.consolidated_data.data =
                  (IF "processed_data" \in DOMAIN st THEN st.processed_data ELSE <<>>)]_vars

C39_Witness ==
    /\ Len(executed) > 3
    /\ Last(executed) = "data_consolidator"
    /\ executed[Len(executed) - 2] = "tool_builder_agent"
    /\ st.iteration = 2
    /\ "processed_data" \in DOMAIN st
    /\ st.processed_data # <<>>
    /\ st.consolidated_data.data = st.processed_data

\* C40: in a run that starts with an empty history, messages never holds
\* more than 14 entries: 2 from domain_identifier, and in each of at most 3
\* passes at most 2 from data_operator and 2 from triz_analyzer; the
\* sliding-window threshold of 20 is not reached.
C40_MessagesBounded ==
    /\ Len(st.messages) <= 14
    /\ Len(st.messages) <= 2 + 4 * st.iteration
    /\ Len(st.messages) <= MaxMessages

C40_Witness ==
    /\ Len(st.messages) = 14
    /\ st.iteration = 3
    /\ next = "report_generator"

====
